---- MODULE Spec2Model ----
(***************************************************************************)
(* Verification model of the SN98 ForeverMoney validator core:             *)
(*   - the per-miner simulation loops (validator/orchestrator/round_loops) *)
(*   - the execution gateway client (validator/orchestrator/executor)      *)
(*   - winner selection and the round orchestrator                         *)
(*   - vault registration / verification                                   *)
(*   - the job scheduler (monitor_and_run_jobs)                            *)
(* Each subsystem has its own specification (SpecLoop, SpecExec, ...) over *)
(* the variables it owns; the variables of the other subsystems stay at    *)
(* their initial value.                                                    *)
(***************************************************************************)
EXTENDS Integers, Sequences, FiniteSets, TLC

(***************************************************************************)
(* Bounds of the model                                                     *)
(***************************************************************************)
\* wall-clock units until round_.round_deadline; every loop iteration takes >= 1 unit
RoundDeadline == 1

\* numbers of blocks the chain can advance between two polls of get_block_fn
BlockJumps == {0, 1, 2, 3}

\* blocks at which a round can start
StartBlocks == {10}

\* self.rebalance_check_interval (config value, default 100), scaled to the block range
rebalance_check_interval == 2

(***************************************************************************)
(* Program constants                                                       *)
(***************************************************************************)
\* EVALUATION_BATCH_SIZE = 51, scaled to the three miners of the model
EVALUATION_BATCH_SIZE == 2

\* REBALANCE_TOLERANCE = 0.02, as a percentage
TolerancePercent == 2
\* denominator of the fixed-point square-root prices used by the model
SqrtScale == 2

VARIABLES
    \* ---- simulation loops (round_loops.py) ----
    mode,                        \* which loop runs: "single", "batch" or "live"
    lpc,                         \* position of the loop coroutine
    now,                         \* wall clock, compared with round_.round_deadline
    start_block,
    current_block,
    pool_price,                  \* what liq_manager.get_current_price() returns now
    step_count,
    price_at_query,
    rebalance_price,
    initial_positions,
    initial_inventory,
    per_miner_positions,
    per_miner_inventory,
    per_miner_rebalances_so_far,
    per_miner_history,
    per_miner_refused,           \* dict uid -> refusal reason
    query_results,               \* responses gathered in this step, not yet processed
    query_count,                 \* number of queries sent to each uid (observer)
    last_query,                  \* payload of the last query sent to each uid (observer)
    last_step,                   \* what the last processed response did (observer)
    execution_failures,
    execution_results,
    results                      \* dict uid -> result of the loop

VARIABLES
    \* ---- execution gateway (orchestrator/executor.py) ----
    executor_bot_url,            \* config["executor_bot_url"], "None" when not configured
    live_executions,             \* persisted execution records, in creation order
    exec_calls,                  \* number of calls of execute_strategy_onchain so far
    exec_result                  \* what the last call returned

execVars == <<executor_bot_url, live_executions, exec_calls, exec_result>>

VARIABLES
    \* ---- vault registration (services/vault.py, repositories/vault.py) ----
    miner_vaults,                \* MinerVault table: lowercased vault address -> row
    associated_miner,            \* on-chain associatedMiner() of every vault contract
    vault_regs,                  \* number of register_miner_vault calls so far
    vault_last                   \* the last register_miner_vault call and its outcome

vaultVars == <<miner_vaults, associated_miner, vault_regs, vault_last>>

VARIABLES
    \* ---- job scheduler (validator.py monitor_and_run_jobs) ----
    active_jobs,                 \* job ids job_repository.get_active_jobs() would return
    running_jobs,                \* keys of running_jobs: jobs with a task in the registry
    task_state,                  \* per job: "none", "running" or "cancelled"
    monitor_polls,               \* iterations of the monitor loop so far
    monitor_last                 \* what the last iteration read and found running

schedVars == <<active_jobs, running_jobs, task_state, monitor_polls, monitor_last>>


loopVars == <<mode, lpc, now, start_block, current_block, pool_price,
              step_count, price_at_query,
              rebalance_price, initial_positions, initial_inventory,
              per_miner_positions, per_miner_inventory,
              per_miner_rebalances_so_far, per_miner_history, per_miner_refused,
              query_results, query_count, last_query, last_step,
              execution_failures, execution_results, results>>

VARIABLES
    \* ---- live round bookkeeping (round_orchestrator.py run_live_round) ----
    miner_live_score,            \* persisted live score of the live round's miner
    live_score_before,           \* that score when the round started
    live_score_updated           \* the round called update_miner_score

liveVars == <<miner_live_score, live_score_before, live_score_updated>>

VARIABLES
    \* ---- evaluation round: scores and winner (round_orchestrator.py, winner.py) ----
    eval_results,                \* what the batched loop returned, per uid
    miner_scores,                \* MinerScore rows: persisted combined score, per uid
    score_updates,               \* uids whose MinerScore row this round has updated
    historic,                    \* what get_historic_combined_scores returned
    scores,                      \* the scores dict built by _evaluate_miners
    winner,                      \* what select_winner returned (miner_uid 0 is None)
    eval_round,                  \* the Round row: status and winner_uid
    wpc                          \* position in run_evaluation_round

winnerVars == <<eval_results, miner_scores, score_updates, historic, scores, winner,
                eval_round, wpc>>

VARIABLES
    \* ---- job task and round numbering (round_orchestrator.py) ----
    round_numbers,               \* self.round_numbers[job_id], "unset" before initialisation
    rounds,                      \* persisted Round rows of the job, in creation order
    coros,                       \* run_evaluation_round / run_live_round coroutines started
    gather_children,             \* the coroutines the pending asyncio.gather awaits
    job_pc,                      \* position of run_job_continuously
    iterations                   \* gathers started so far, over all process runs

roundVars == <<round_numbers, rounds, coros, gather_children, job_pc, iterations>>

VARIABLES
    \* ---- the pure functions, called on their own ----
    pure_fn,                     \* the function called
    pure_args,                   \* its arguments
    pure_ret                     \* <<>> before the call returns, then what it returned

pureVars == <<pure_fn, pure_args, pure_ret>>

VARIABLES
    \* ---- run_live_round: choice of the miner (round_orchestrator.py) ----
    ranking,                     \* what get_evaluation_round_ranking returned
    eligible_uids,               \* the uids get_eligible_miners returned
    winner_uid,                  \* the miner chosen for the live round, 0 is None
    live_round_number,           \* self.round_numbers[job_id]["live"]
    live_rounds,                 \* persisted live Round rows of the job
    live_queries,                \* RebalanceQuery synapses sent by live rounds
    gateway_calls,               \* execute_strategy_onchain calls of live rounds
    live_calls,                  \* run_live_round calls started
    live_pc                      \* position in run_live_round

selectVars == <<ranking, eligible_uids, winner_uid, live_round_number, live_rounds,
                live_queries, gateway_calls, live_calls, live_pc>>

VARIABLES
    \* ---- one rebalance step of the query gateway (miner_query.py, round_loops.py) ----
    q_uids,                      \* miner_uids of the call, in request order
    q_refused,                   \* uids in per_miner_refused when the step starts
    in_flight,                   \* uids whose dendrite call has not returned yet
    dendrite_outcome,            \* what each dendrite call did (observer)
    query_returned,              \* what query_one returned, per uid
    arrival_order,               \* uids in the order their dendrite calls returned
    gather_results,              \* the list of (uid, response) the step works on
    attributed,                  \* the response the step handled for each uid
    qpc                          \* position in the step

queryVars == <<q_uids, q_refused, in_flight, dendrite_outcome, query_returned,
               arrival_order, gather_results, attributed, qpc>>

VARIABLES
    \* ---- filter_eligible_miners (services/vault.py, repositories/vault.py) ----
    vault_table,                 \* MinerVault rows with their latest snapshot
    filter_uids,                 \* the miner_uids argument
    filter_next,                 \* index of the next uid the loop checks
    filter_checked,              \* (uid, result) of every check made, in order
    filter_eligible,             \* the local list eligible_uids
    filter_pc                    \* "loop", "returned" or "raised"

filterVars == <<vault_table, filter_uids, filter_next, filter_checked, filter_eligible,
                filter_pc>>

\* the state each part of the program leaves alone
outsideLive ==
    <<execVars, vaultVars, schedVars, winnerVars, roundVars, pureVars, selectVars,
      queryVars, filterVars>>
outsideLoop ==
    <<outsideLive, liveVars>>
outsideExec ==
    <<loopVars, vaultVars, schedVars, liveVars, winnerVars, roundVars, pureVars,
      selectVars, queryVars, filterVars>>
outsideVault ==
    <<loopVars, execVars, schedVars, liveVars, winnerVars, roundVars, pureVars,
      selectVars, queryVars, filterVars>>
outsideSched ==
    <<loopVars, execVars, vaultVars, liveVars, winnerVars, roundVars, pureVars,
      selectVars, queryVars, filterVars>>
outsideWinner ==
    <<loopVars, execVars, vaultVars, schedVars, liveVars, roundVars, pureVars,
      selectVars, queryVars, filterVars>>
outsideRound ==
    <<loopVars, execVars, vaultVars, schedVars, liveVars, winnerVars, pureVars,
      selectVars, queryVars, filterVars>>

outsidePure ==
    <<loopVars, execVars, vaultVars, schedVars, liveVars, winnerVars, roundVars,
      selectVars, queryVars, filterVars>>
outsideSelect ==
    <<loopVars, execVars, vaultVars, schedVars, liveVars, winnerVars, roundVars,
      pureVars, queryVars, filterVars>>

outsideQuery ==
    <<loopVars, execVars, vaultVars, schedVars, liveVars, winnerVars, roundVars,
      pureVars, selectVars, filterVars>>

outsideFilter ==
    <<loopVars, execVars, vaultVars, schedVars, liveVars, winnerVars, roundVars,
      pureVars, selectVars, queryVars>>

vars ==
    <<loopVars, execVars, vaultVars, schedVars, liveVars, winnerVars, roundVars,
      pureVars, selectVars, queryVars, filterVars>>

(***************************************************************************)
(* Helpers                                                                 *)
(***************************************************************************)
Abs(x) == IF x < 0 THEN -x ELSE x

Max2(a, b) == IF a >= b THEN a ELSE b

Min2(a, b) == IF a <= b THEN a ELSE b

RECURSIVE SumSeq(_)
SumSeq(s) == IF s = <<>> THEN 0 ELSE Head(s) + SumSeq(Tail(s))

\* the dict d with d[k] = v added or overwritten
DictPut(d, k, v) == [x \in DOMAIN d \cup {k} |-> IF x = k THEN v ELSE d[x]]

(***************************************************************************)
(* Positions, inventory, liquidity math                                    *)
(***************************************************************************)
Pos(lo, up, a0, a1) ==
    [tick_lower |-> lo, tick_upper |-> up, allocation0 |-> a0, allocation1 |-> a1]

Inventory(a0, a1) == [amount0 |-> a0, amount1 |-> a1]

\* sqrt(1.0001^tick) on the model's tick grid, in units of 1/SqrtScale.
\* The grid is a monotone stand-in for the exponential: tick 0 -> 1.0, 1 -> 1.5, ...
tick_to_sqrt_price(tick) == SqrtScale + tick

\* (actual_amount0_used, actual_amount1_used) of a position at a price; the price is
\* carried as its square root n / SqrtScale. Floats are taken as exact rationals and
\* the result truncated as int() does.
position_liquidity_and_used_amounts(tick_lower, tick_upper, n, a0, a1) ==
    LET nl == tick_to_sqrt_price(tick_lower)
        nu == tick_to_sqrt_price(tick_upper)
        \* liquidity0 = a0 * sp * spU / (spU - sp), liquidity1 = a1 / (sp - spL)
        \* compared on the common denominator (nu - n) * (n - nl) * SqrtScale
        l0 == IF nu > n THEN a0 * n * nu * (n - nl) ELSE 0
        l1 == IF n > nl THEN a1 * SqrtScale * SqrtScale * (nu - n) ELSE 0
        use0 == IF l0 > 0 /\ l1 > 0 THEN l0 <= l1 ELSE l0 >= l1
    IN  IF n <= nl THEN
            IF nu > nl THEN <<a0, 0>> ELSE <<0, 0>>
        ELSE IF n >= nu THEN
            IF nu > nl THEN <<0, a1>> ELSE <<0, 0>>
        ELSE IF l0 = 0 /\ l1 = 0 THEN <<0, 0>>
        ELSE IF use0 THEN
            \* liquidity = liquidity0: amount0 = a0, amount1 = liquidity0 * (sp - spL)
            <<a0, (a0 * n * nu * (n - nl)) \div ((nu - n) * SqrtScale * SqrtScale)>>
        ELSE
            \* liquidity = liquidity1: amount1 = a1, amount0 = liquidity1 * (spU - sp) / (sp * spU)
            <<(a1 * SqrtScale * SqrtScale * (nu - n)) \div ((n - nl) * n * nu), a1>>

\* total (amount0, amount1) deployed by a list of positions at a price
RECURSIVE TotalUsed(_, _)
TotalUsed(positions, price) ==
    IF positions = <<>> THEN <<0, 0>>
    ELSE LET p == Head(positions)
             u == position_liquidity_and_used_amounts(
                      p.tick_lower, p.tick_upper, price, p.allocation0, p.allocation1)
             r == TotalUsed(Tail(positions), price)
         IN  <<u[1] + r[1], u[2] + r[2]>>

(***************************************************************************)
(* Rebalance tolerance                                                     *)
(***************************************************************************)
\* abs(a - b) / max(|a|, |b|, 1) <= tolerance, on integers
within_tolerance(a, b) ==
    IF a = b THEN TRUE
    ELSE LET denom == Max2(Max2(Abs(a), Abs(b)), 1)
         IN  Abs(a - b) * 100 <= TolerancePercent * denom

\* the value current_by_range[key]: the last position of `current` with that range
RECURSIVE LastWithRange(_, _, _)
LastWithRange(current, lo, up) ==
    LET n == Len(current)
    IN  IF current[n].tick_lower = lo /\ current[n].tick_upper = up
        THEN current[n]
        ELSE LastWithRange(SubSeq(current, 1, n - 1), lo, up)

HasRange(current, lo, up) ==
    \E i \in 1..Len(current) :
        current[i].tick_lower = lo /\ current[i].tick_upper = up

positions_within_tolerance(current, desired) ==
    /\ Len(current) = Len(desired)
    /\ \A i \in 1..Len(desired) :
          LET d == desired[i]
          IN  /\ HasRange(current, d.tick_lower, d.tick_upper)
              /\ LET c == LastWithRange(current, d.tick_lower, d.tick_upper)
                 IN  /\ within_tolerance(c.allocation0, d.allocation0)
                     /\ within_tolerance(c.allocation1, d.allocation1)

(***************************************************************************)
(* Inputs of the simulation loops                                          *)
(***************************************************************************)
miner_uids == <<1, 2>>

Miners == {miner_uids[i] : i \in 1..Len(miner_uids)}

\* the miner of the single-miner loops
miner_uid == miner_uids[1]

PosA == Pos(0, 2, 100, 100)

\* PosA with allocation0 drifted by 1%: within tolerance of PosA
PosA2 == Pos(0, 2, 101, 100)

PosB == Pos(1, 3, 100, 50)

\* needs more than the whole inventory
PosBig == Pos(0, 2, 400, 400)

Proposals == {<<PosA>>, <<PosA2>>, <<PosA, PosB>>, <<PosBig>>}

InitialPositions == {<<>>, <<PosA>>}

InitialInventories == {Inventory(250, 200)}

\* square-root prices (numerators over SqrtScale) the chain can report
Prices == {3, 5}

InitialPrices == {3}

\* values Scorer.score_pol_strategy can return
Scores == {-1, 1}

\* what query_miner_for_rebalance can return: None, or a synapse with an accepted flag
NoResponse ==
    [usable |-> FALSE, accepted |-> FALSE, refusal_reason |-> "None",
     has_desired |-> FALSE, desired_positions |-> <<>>]

Refusal ==
    [usable |-> TRUE, accepted |-> FALSE, refusal_reason |-> "declined",
     has_desired |-> FALSE, desired_positions |-> <<>>]

\* accepted=true, desired_positions=None
AcceptNoPositions ==
    [usable |-> TRUE, accepted |-> TRUE, refusal_reason |-> "None",
     has_desired |-> FALSE, desired_positions |-> <<>>]

AcceptWith(d) ==
    [usable |-> TRUE, accepted |-> TRUE, refusal_reason |-> "None",
     has_desired |-> TRUE, desired_positions |-> d]

Responses ==
    {NoResponse, Refusal, AcceptNoPositions} \cup {AcceptWith(d) : d \in Proposals}

NoQuery ==
    [sent |-> FALSE, block_number |-> 0, current_positions |-> <<>>,
     inventory |-> Inventory(0, 0), rebalances_so_far |-> 0]

NoStep == [uid |-> 0, kind |-> "none", inv_0 |-> 0, inv_1 |-> 0, executed |-> FALSE]

Step(uid, kind, inv_0, inv_1, executed) ==
    [uid |-> uid, kind |-> kind, inv_0 |-> inv_0, inv_1 |-> inv_1, executed |-> executed]

HistoryEntry(block, price, price_in_query, old_positions, new_positions, inventory) ==
    [block |-> block, price |-> price, price_in_query |-> price_in_query,
     old_positions |-> old_positions, new_positions |-> new_positions,
     inventory |-> inventory]

Result(accepted, refusal_reason, rebalance_history, has_score, score) ==
    [accepted |-> accepted, refusal_reason |-> refusal_reason,
     rebalance_history |-> rebalance_history, has_score |-> has_score,
     score |-> score]

(***************************************************************************)
(* Simulation loops: initial state                                         *)
(***************************************************************************)
\* the loop variables when no loop runs
IdleLoop ==
    /\ mode = "idle"
    /\ lpc = "idle"
    /\ now = 0
    /\ start_block = 0
    /\ current_block = 0
    /\ pool_price = 0
    /\ step_count = 0
    /\ price_at_query = 0
    /\ rebalance_price = 0
    /\ initial_positions = <<>>
    /\ initial_inventory = Inventory(0, 0)
    /\ per_miner_positions = <<>>
    /\ per_miner_inventory = <<>>
    /\ per_miner_rebalances_so_far = <<>>
    /\ per_miner_history = <<>>
    /\ per_miner_refused = <<>>
    /\ query_results = <<>>
    /\ query_count = <<>>
    /\ last_query = <<>>
    /\ last_step = NoStep
    /\ execution_failures = 0
    /\ execution_results = <<>>
    /\ results = <<>>

\* no call of execute_strategy_onchain has returned yet
NoExecResult == [success |-> FALSE, execution_id |-> 0, tx_hash |-> "None",
                 error |-> "None", returned |-> FALSE]

\* the execution gateway when no spec exercises it
IdleExec ==
    /\ executor_bot_url = "None"
    /\ live_executions = <<>>
    /\ exec_calls = 0
    /\ exec_result = NoExecResult

\* no row for a vault address
NoVault == [exists |-> FALSE, miner_uid |-> 0, miner_hotkey |-> "None",
            is_verified |-> FALSE, is_active |-> FALSE]

NoRegistration == [miner_uid |-> 0, vault_address |-> "None", mismatch |-> FALSE,
                   is_associated |-> FALSE, auto_verify |-> FALSE]

\* the vault table when no spec exercises it
IdleVault ==
    /\ miner_vaults = <<>>
    /\ associated_miner = <<>>
    /\ vault_regs = 0
    /\ vault_last = NoRegistration

NoPoll == [polled |-> FALSE, failed |-> FALSE, active_jobs |-> {}, running_before |-> {}]

\* the scheduler when no spec exercises it
IdleSched ==
    /\ active_jobs = {}
    /\ running_jobs = {}
    /\ task_state = <<>>
    /\ monitor_polls = 0
    /\ monitor_last = NoPoll

\* no live round has touched the score table
IdleLive ==
    /\ miner_live_score = 0
    /\ live_score_before = 0
    /\ live_score_updated = FALSE

NoWinner == [miner_uid |-> 0, score |-> 0]
NoRound == [status |-> "none", winner_uid |-> 0]

\* no evaluation round is being completed
IdleWinner ==
    /\ eval_results = <<>>
    /\ miner_scores = <<>>
    /\ score_updates = {}
    /\ historic = <<>>
    /\ scores = <<>>
    /\ winner = NoWinner
    /\ eval_round = NoRound
    /\ wpc = "idle"

\* no job task runs
IdleRound ==
    /\ round_numbers = "unset"
    /\ rounds = <<>>
    /\ coros = <<>>
    /\ gather_children = {}
    /\ job_pc = "idle"
    /\ iterations = 0

\* no pure function is called on its own
IdlePure ==
    /\ pure_fn = "none"
    /\ pure_args = <<>>
    /\ pure_ret = <<>>

\* run_live_round has not been called
IdleSelect ==
    /\ ranking = <<>>
    /\ eligible_uids = {}
    /\ winner_uid = 0
    /\ live_round_number = 0
    /\ live_rounds = <<>>
    /\ live_queries = 0
    /\ gateway_calls = 0
    /\ live_calls = 0
    /\ live_pc = "idle"

IdleQuery ==
    /\ q_uids = <<>>
    /\ q_refused = {}
    /\ in_flight = {}
    /\ dendrite_outcome = <<>>
    /\ query_returned = <<>>
    /\ arrival_order = <<>>
    /\ gather_results = <<>>
    /\ attributed = <<>>
    /\ qpc = "idle"

IdleFilter ==
    /\ vault_table = <<>>
    /\ filter_uids = <<>>
    /\ filter_next = 0
    /\ filter_checked = <<>>
    /\ filter_eligible = <<>>
    /\ filter_pc = "idle"

\* each specification starts with the other parts of the program idle: its
\* Init names their Idle predicates

\* live scores persisted by earlier rounds
PreviousLiveScores == {7}

InitLoop ==
    /\ IdleExec /\ IdleVault /\ IdleSched
    /\ IdleWinner /\ IdleRound /\ IdlePure /\ IdleSelect /\ IdleQuery /\ IdleFilter
    /\ miner_live_score \in PreviousLiveScores
    /\ live_score_before = miner_live_score
    /\ live_score_updated = FALSE
    /\ mode \in {"single", "batch", "live"}
    /\ lpc = "head"
    /\ now = 0
    /\ start_block \in StartBlocks
    /\ current_block = start_block
    /\ pool_price \in InitialPrices
    /\ step_count = 0
    /\ price_at_query = 0
    /\ rebalance_price = 0
    /\ initial_positions \in InitialPositions
    /\ initial_inventory \in InitialInventories
    /\ per_miner_positions = [uid \in Miners |-> initial_positions]
    /\ per_miner_inventory = [uid \in Miners |-> initial_inventory]
    /\ per_miner_rebalances_so_far = [uid \in Miners |-> 0]
    /\ per_miner_history = [uid \in Miners |-> <<>>]
    /\ per_miner_refused = <<>>
    /\ query_results = <<>>
    /\ query_count = [uid \in Miners |-> 0]
    /\ last_query = [uid \in Miners |-> NoQuery]
    /\ last_step = NoStep
    /\ execution_failures = 0
    /\ execution_results = <<>>
    /\ results = <<>>

(***************************************************************************)
(* Simulation loops: the steps shared by the three loops                   *)
(***************************************************************************)
\* while round_.round_deadline >= now: if (current_block - start_block) % interval == 0
LoopHead ==
    /\ UNCHANGED outsideLoop
    /\ lpc = "head"
    /\ IF now > RoundDeadline
       THEN lpc' = "finish"
       ELSE IF (current_block - start_block) % rebalance_check_interval = 0
            THEN lpc' = "query"
            ELSE lpc' = "advance"          \* await asyncio.sleep(1)
    /\ UNCHANGED <<mode, now, start_block, pool_price, current_block, step_count,
                   price_at_query,
                   rebalance_price, initial_positions, initial_inventory,
                   per_miner_positions, per_miner_inventory,
                   per_miner_rebalances_so_far, per_miner_history,
                   per_miner_refused, query_results, query_count, last_query,
                   last_step, execution_failures, execution_results, results>>

\* current_block = await get_block_fn(job.chain_id); the iteration took dt > 0
AdvanceBlock ==
    /\ UNCHANGED outsideLoop
    /\ lpc = "advance"
    /\ \E jump \in BlockJumps : current_block' = current_block + jump
    /\ now' = now + 1
    /\ lpc' = "head"
    /\ UNCHANGED <<mode, start_block, pool_price, step_count, price_at_query,
                   rebalance_price,
                   initial_positions, initial_inventory, per_miner_positions,
                   per_miner_inventory, per_miner_rebalances_so_far,
                   per_miner_history, per_miner_refused, query_results,
                   query_count, last_query, last_step, execution_failures,
                   execution_results, results>>

\* every query carrying the state of the first miner
QueryPayloadOfFirstMiner(uid) ==
    [sent |-> TRUE, block_number |-> current_block,
     current_positions |-> per_miner_positions[miner_uids[1]],
     inventory |-> per_miner_inventory[miner_uids[1]],
     rebalances_so_far |-> per_miner_rebalances_so_far[miner_uids[1]]]

\* the synapse fields query_one fills from the miner's own state
QueryPayload(uid) ==
    [sent |-> TRUE, block_number |-> current_block,
     current_positions |-> per_miner_positions[uid],
     inventory |-> per_miner_inventory[uid],
     rebalances_so_far |-> per_miner_rebalances_so_far[uid]]

\* the step's guard "inv_0 < 0 or inv_1 < 0"
InsufficientInventory(inv_0, inv_1) == inv_0 < 0 \/ inv_1 < 0

\* a skip test that never skips: refused peers would be queried and processed again
IsRefusedNever(uid) == FALSE

\* "uid in per_miner_refused": the peer left the round and is skipped
IsRefused(uid) == uid \in DOMAIN per_miner_refused

\* a refusal recorded without touching the dict: the peer would stay active
MarkRefusedForgotten(uid, reason) == UNCHANGED per_miner_refused

\* per_miner_refused[uid] = reason
MarkRefused(uid, reason) ==
    per_miner_refused' = DictPut(per_miner_refused, uid, reason)

\* the history entry appended and counted, the positions and inventory left as they were
CommitRebalanceKeepingState(uid, desired, inventory) ==
    /\ per_miner_history' =
          [per_miner_history EXCEPT ![uid] =
              Append(@, HistoryEntry(current_block, rebalance_price, price_at_query,
                                     per_miner_positions[uid], desired, inventory))]
    /\ per_miner_rebalances_so_far' =
          [per_miner_rebalances_so_far EXCEPT ![uid] = @ + 1]
    /\ UNCHANGED <<per_miner_positions, per_miner_inventory>>

\* append the history entry and move the peer to the desired positions
CommitRebalance(uid, desired, inventory) ==
    /\ per_miner_history' =
          [per_miner_history EXCEPT ![uid] =
              Append(@, HistoryEntry(current_block, rebalance_price, price_at_query,
                                     per_miner_positions[uid], desired, inventory))]
    /\ per_miner_positions' = [per_miner_positions EXCEPT ![uid] = desired]
    /\ per_miner_inventory' = [per_miner_inventory EXCEPT ![uid] = inventory]
    /\ per_miner_rebalances_so_far' =
          [per_miner_rebalances_so_far EXCEPT ![uid] = @ + 1]

\* the state kept, except that every peer's history is dropped
KeepPeerStateDroppingHistory ==
    /\ per_miner_history' = [uid \in DOMAIN per_miner_history |-> <<>>]
    /\ UNCHANGED <<per_miner_positions, per_miner_inventory,
                   per_miner_rebalances_so_far>>

\* the state kept, except that every peer's rebalance count goes up
KeepPeerStateCounting ==
    /\ per_miner_rebalances_so_far' =
          [uid \in DOMAIN per_miner_rebalances_so_far |->
              per_miner_rebalances_so_far[uid] + 1]
    /\ UNCHANGED <<per_miner_positions, per_miner_inventory, per_miner_history>>

KeepPeerState ==
    UNCHANGED <<per_miner_positions, per_miner_inventory,
                per_miner_rebalances_so_far, per_miner_history>>

(***************************************************************************)
(* run_with_miners_batch_for_evaluation                                    *)
(***************************************************************************)
\* one rebalance step: query every miner (query_one), then read the rebalance price
QueryBatch ==
    /\ UNCHANGED outsideLoop
    /\ mode = "batch"
    /\ lpc = "query"
    /\ step_count' = step_count + 1
    /\ price_at_query' = pool_price
    /\ \E pr \in Prices, resp \in [Miners -> Responses] :
          /\ rebalance_price' = pr       \* the price moved while the queries ran
          /\ pool_price' = pr
          /\ query_results' =
                [i \in 1..Len(miner_uids) |->
                    LET uid == miner_uids[i]
                    IN  <<uid, IF IsRefused(uid) THEN NoResponse ELSE resp[uid]>>]
    /\ query_count' =
          [uid \in Miners |-> IF IsRefused(uid) THEN query_count[uid]
                                                  ELSE query_count[uid] + 1]
    /\ last_query' =
          [uid \in Miners |-> IF IsRefused(uid) THEN last_query[uid]
                                                  ELSE QueryPayload(uid)]
    /\ lpc' = "process"
    /\ UNCHANGED <<mode, now, start_block, current_block, initial_positions,
                   initial_inventory,
                   per_miner_positions, per_miner_inventory,
                   per_miner_rebalances_so_far, per_miner_history,
                   per_miner_refused, last_step, execution_failures,
                   execution_results, results>>

\* the body of "for uid, response in query_results" for one response
BatchStep(uid, response) ==
    IF IsRefused(uid) THEN
        /\ last_step' = Step(uid, "skip_refused", 0, 0, FALSE)
        /\ UNCHANGED per_miner_refused
        /\ KeepPeerState
    ELSE IF ~response.usable \/ ~response.accepted THEN
        /\ MarkRefused(uid, IF response.usable THEN response.refusal_reason
                                               ELSE "Timeout or error")
        /\ last_step' = Step(uid, IF response.usable THEN "refused" ELSE "timeout",
                             0, 0, FALSE)
        /\ KeepPeerState
    ELSE IF ~response.has_desired THEN
        /\ MarkRefused(uid, "Miner not running")
        /\ last_step' = Step(uid, "no_positions", 0, 0, FALSE)
        /\ KeepPeerState
    ELSE IF positions_within_tolerance(per_miner_positions[uid],
                                       response.desired_positions) THEN
        /\ last_step' = Step(uid, "within_tolerance", 0, 0, FALSE)
        /\ UNCHANGED per_miner_refused
        /\ KeepPeerState
    ELSE
        LET inv == per_miner_inventory[uid]
            total == TotalUsed(response.desired_positions, rebalance_price)
            inv_0 == inv.amount0 - total[1]
            inv_1 == inv.amount1 - total[2]
        IN  IF InsufficientInventory(inv_0, inv_1) THEN
                /\ MarkRefused(uid, "Insufficient inventory from desired positions")
                /\ last_step' = Step(uid, "insufficient", inv_0, inv_1, FALSE)
                /\ KeepPeerState
            ELSE
                /\ CommitRebalance(uid, response.desired_positions,
                                   Inventory(inv_0, inv_1))
                /\ last_step' = Step(uid, "committed", inv_0, inv_1, FALSE)
                /\ UNCHANGED per_miner_refused

ProcessBatch ==
    /\ UNCHANGED outsideLoop
    /\ mode = "batch"
    /\ lpc = "process"
    /\ query_results # <<>>
    /\ BatchStep(Head(query_results)[1], Head(query_results)[2])
    /\ query_results' = Tail(query_results)
    /\ lpc' = IF Len(query_results) = 1 THEN "advance" ELSE "process"
    /\ UNCHANGED <<mode, now, start_block, pool_price, current_block, step_count,
                   price_at_query,
                   rebalance_price, initial_positions, initial_inventory,
                   query_count, last_query, execution_failures,
                   execution_results, results>>

\* every peer reported as accepted, a refused one too
BatchResultAllAccepted(uid, score) ==
    Result(TRUE, "None", per_miner_history[uid], TRUE, score)

\* "Build result per miner: backtest and score"
BatchResult(uid, score) ==
    IF IsRefused(uid) THEN Result(FALSE, per_miner_refused[uid], <<>>, TRUE, 0)
    ELSE IF per_miner_history[uid] = <<>> THEN Result(TRUE, "None", <<>>, TRUE, 0)
    ELSE Result(TRUE, "None", per_miner_history[uid], TRUE, score)

FinishBatch ==
    /\ UNCHANGED outsideLoop
    /\ mode = "batch"
    /\ lpc = "finish"
    /\ \E score \in [Miners -> Scores] :
          results' = [uid \in Miners |-> BatchResult(uid, score[uid])]
    /\ lpc' = "done"
    /\ UNCHANGED <<mode, now, start_block, pool_price, current_block, step_count,
                   price_at_query,
                   rebalance_price, initial_positions, initial_inventory,
                   per_miner_positions, per_miner_inventory,
                   per_miner_rebalances_so_far, per_miner_history,
                   per_miner_refused, query_results, query_count, last_query,
                   last_step, execution_failures, execution_results>>

(***************************************************************************)
(* run_with_miner_for_evaluation and run_with_miner_for_live               *)
(***************************************************************************)
\* query_miner_for_rebalance for the one miner of the loop, with its own state
QueryMiner ==
    /\ UNCHANGED outsideLoop
    /\ mode \in {"single", "live"}
    /\ lpc = "query"
    /\ step_count' = step_count + 1
    /\ price_at_query' = pool_price
    /\ \E pr \in Prices, response \in Responses :
          /\ rebalance_price' = pr       \* the price moved while the query ran
          /\ pool_price' = pr
          /\ query_results' = <<<<miner_uid, response>>>>
    /\ query_count' = [query_count EXCEPT ![miner_uid] = @ + 1]
    /\ last_query' = [last_query EXCEPT ![miner_uid] = QueryPayload(miner_uid)]
    /\ lpc' = "process"
    /\ UNCHANGED <<mode, now, start_block, current_block, initial_positions,
                   initial_inventory,
                   per_miner_positions, per_miner_inventory,
                   per_miner_rebalances_so_far, per_miner_history,
                   per_miner_refused, last_step, execution_failures,
                   execution_results, results>>

\* "return {accepted: False, ...}" of the single-miner evaluation loop
ReturnNotAccepted(uid, reason, has_score) ==
    /\ results' = DictPut(results, uid,
                          Result(FALSE, reason, per_miner_history[uid], has_score, 0))
    /\ lpc' = "done"
    /\ KeepPeerState

SingleStep(uid, response) ==
    IF ~response.usable THEN
        /\ ReturnNotAccepted(uid, "Timeout or error", FALSE)
        /\ last_step' = Step(uid, "timeout", 0, 0, FALSE)
    ELSE IF ~response.accepted THEN
        /\ ReturnNotAccepted(uid, response.refusal_reason, FALSE)
        /\ last_step' = Step(uid, "refused", 0, 0, FALSE)
    ELSE IF ~response.has_desired THEN
        /\ ReturnNotAccepted(uid, "No desired positions (miner not running)", TRUE)
        /\ last_step' = Step(uid, "no_positions", 0, 0, FALSE)
    ELSE IF positions_within_tolerance(per_miner_positions[uid],
                                       response.desired_positions) THEN
        /\ last_step' = Step(uid, "within_tolerance", 0, 0, FALSE)
        /\ lpc' = "advance"
        /\ KeepPeerState
        /\ UNCHANGED results
    ELSE
        LET total == TotalUsed(response.desired_positions, rebalance_price)
            amount_0_int == initial_inventory.amount0 - total[1]
            amount_1_int == initial_inventory.amount1 - total[2]
        IN  IF InsufficientInventory(amount_0_int, amount_1_int) THEN
                /\ ReturnNotAccepted(uid, "None", FALSE)
                /\ last_step' = Step(uid, "insufficient", amount_0_int, amount_1_int,
                                     FALSE)
            ELSE
                /\ CommitRebalance(uid, response.desired_positions,
                                   Inventory(amount_0_int, amount_1_int))
                /\ last_step' = Step(uid, "committed", amount_0_int, amount_1_int,
                                     FALSE)
                /\ lpc' = "advance"
                /\ UNCHANGED results

ProcessSingle ==
    /\ UNCHANGED outsideLoop
    /\ mode = "single"
    /\ lpc = "process"
    /\ query_results # <<>>
    /\ SingleStep(Head(query_results)[1], Head(query_results)[2])
    /\ query_results' = Tail(query_results)
    /\ UNCHANGED <<mode, now, start_block, pool_price, current_block, step_count,
                   price_at_query,
                   rebalance_price, initial_positions, initial_inventory,
                   per_miner_refused, query_count, last_query,
                   execution_failures, execution_results>>

\* backtest and score after the deadline
FinishSingle ==
    /\ UNCHANGED outsideLoop
    /\ mode = "single"
    /\ lpc = "finish"
    /\ \E score \in Scores :
          results' = DictPut(results, miner_uid,
                             Result(TRUE, "None", per_miner_history[miner_uid],
                                    TRUE, score))
    /\ lpc' = "done"
    /\ UNCHANGED <<mode, now, start_block, pool_price, current_block, step_count,
                   price_at_query,
                   rebalance_price, initial_positions, initial_inventory,
                   per_miner_positions, per_miner_inventory,
                   per_miner_rebalances_so_far, per_miner_history,
                   per_miner_refused, query_results, query_count, last_query,
                   last_step, execution_failures, execution_results>>

\* amount_x_int = max(0, initial - total) of the live loop
LiveInventoryAmount(x) == Max2(0, x)

\* `success` is exec_result["success"] of execute_strategy_onchain
LiveStep(uid, response, success) ==
    IF ~(response.usable /\ response.accepted /\ response.has_desired) THEN
        /\ last_step' = Step(uid, "no_decision", 0, 0, FALSE)
        /\ KeepPeerState
        /\ UNCHANGED <<execution_failures, execution_results>>
    ELSE IF positions_within_tolerance(per_miner_positions[uid],
                                       response.desired_positions) THEN
        /\ last_step' = Step(uid, "within_tolerance", 0, 0, FALSE)
        /\ KeepPeerState
        /\ UNCHANGED <<execution_failures, execution_results>>
    ELSE
        /\ execution_results' =
              Append(execution_results, [block |-> current_block, success |-> success])
        /\ IF success THEN
              LET total == TotalUsed(response.desired_positions, rebalance_price)
                  computed_0 == initial_inventory.amount0 - total[1]
                  computed_1 == initial_inventory.amount1 - total[2]
              IN  /\ CommitRebalance(uid, response.desired_positions,
                                     Inventory(LiveInventoryAmount(computed_0),
                                               LiveInventoryAmount(computed_1)))
                  /\ last_step' = Step(uid, "committed", computed_0, computed_1, TRUE)
                  /\ UNCHANGED execution_failures
           ELSE
              /\ execution_failures' = execution_failures + 1
              /\ last_step' = Step(uid, "exec_failed", 0, 0, TRUE)
              /\ KeepPeerState

ProcessLive ==
    /\ UNCHANGED outsideLoop
    /\ mode = "live"
    /\ lpc = "process"
    /\ query_results # <<>>
    /\ \E success \in BOOLEAN :
          LiveStep(Head(query_results)[1], Head(query_results)[2], success)
    /\ query_results' = Tail(query_results)
    /\ lpc' = "advance"
    /\ UNCHANGED <<mode, now, start_block, pool_price, current_block, step_count,
                   price_at_query,
                   rebalance_price, initial_positions, initial_inventory,
                   per_miner_refused, query_count, last_query, results>>

FinishLive ==
    /\ UNCHANGED outsideLoop
    /\ mode = "live"
    /\ lpc = "finish"
    /\ \E score \in Scores :
          results' = DictPut(results, miner_uid,
                             Result(TRUE, "None", per_miner_history[miner_uid],
                                    TRUE, score))
    /\ lpc' = "done"
    /\ UNCHANGED <<mode, now, start_block, pool_price, current_block, step_count,
                   price_at_query,
                   rebalance_price, initial_positions, initial_inventory,
                   per_miner_positions, per_miner_inventory,
                   per_miner_rebalances_so_far, per_miner_history,
                   per_miner_refused, query_results, query_count, last_query,
                   last_step, execution_failures, execution_results>>

\* a skip test that never skips the score update
ExecutionFailuresIgnored(total_executions, failures) == FALSE

\* "total_executions > 0 and execution_failures == total_executions": not updating score
AllExecutionsFailed(total_executions, failures) ==
    total_executions > 0 /\ failures = total_executions

\* job_repository.update_miner_score(live_score=...): the persisted live score
update_miner_score(live_score) ==
    /\ miner_live_score' = live_score
    /\ live_score_updated' = TRUE

\* run_live_round after the loop returned: update the winner's live score unless every
\* execution failed, save the decision, complete the round
CompleteLiveRound ==
    /\ mode = "live"
    /\ lpc = "done"
    /\ lpc' = "completed"
    /\ IF results[miner_uid].accepted
          /\ ~AllExecutionsFailed(Len(execution_results), execution_failures)
       THEN update_miner_score(results[miner_uid].score)
       ELSE UNCHANGED <<miner_live_score, live_score_updated>>
    /\ UNCHANGED <<mode, now, start_block, pool_price, current_block, step_count,
                   price_at_query,
                   rebalance_price, initial_positions, initial_inventory,
                   per_miner_positions, per_miner_inventory,
                   per_miner_rebalances_so_far, per_miner_history,
                   per_miner_refused, query_results, query_count, last_query,
                   last_step, execution_failures, execution_results, results>>
    /\ UNCHANGED <<live_score_before, outsideLive>>

NextLoop ==
    \/ LoopHead
    \/ AdvanceBlock
    \/ QueryBatch
    \/ ProcessBatch
    \/ FinishBatch
    \/ QueryMiner
    \/ ProcessSingle
    \/ FinishSingle
    \/ ProcessLive
    \/ FinishLive
    \/ CompleteLiveRound

SpecLoop == InitLoop /\ [][NextLoop]_vars

(***************************************************************************)
(* Simulation loops: peer states                                           *)
(***************************************************************************)
\* Active / Refused / TimedOut / Completed as the loops record them: the batched loop
\* keeps the refusal reason in per_miner_refused, the single-miner loop returns it.
PeerState(uid) ==
    IF mode = "batch" THEN
        IF uid \in DOMAIN per_miner_refused THEN
            IF per_miner_refused[uid] = "Timeout or error" THEN "TimedOut"
                                                           ELSE "Refused"
        ELSE IF lpc = "done" THEN "Completed" ELSE "Active"
    ELSE
        IF uid \in DOMAIN results THEN
            IF results[uid].accepted THEN "Completed"
            ELSE IF results[uid].refusal_reason = "Timeout or error" THEN "TimedOut"
            ELSE "Refused"
        ELSE "Active"

PeerFields(uid) ==
    <<per_miner_positions[uid], per_miner_inventory[uid],
      per_miner_rebalances_so_far[uid], per_miner_history[uid]>>

\* the step that processed a response has just been taken
StepTaken == lpc = "process" /\ query_results # <<>>

(***************************************************************************)
(* Claims about the simulation loops (SpecLoop)                            *)
(***************************************************************************)
\* C1: a rebalance step is committed only if the computed inventory (initial amount
\* minus the deployed amounts) is >= 0 for both tokens, in every loop.
C1_CommittedOnlyIfInventoryNonNegative ==
    last_step.kind = "committed" => last_step.inv_0 >= 0 /\ last_step.inv_1 >= 0

\* C1, the state that refutes it: the live loop committed a step whose computed
\* inventory is negative.
C1_LiveCommitsNegative ==
    /\ mode = "live"
    /\ last_step.kind = "committed"
    /\ (last_step.inv_0 < 0 \/ last_step.inv_1 < 0)
    /\ per_miner_history[miner_uid] # <<>>

InsufficientStepRefuses ==
    /\ \A uid \in Miners :
          (StepTaken /\ last_step'.kind = "insufficient" /\ last_step'.uid = uid) =>
              /\ PeerFields(uid)' = PeerFields(uid)
              /\ PeerState(uid)' = "Refused"
    /\ (last_step.kind = "insufficient" /\ PeerState(last_step.uid) = "Refused") =>
          query_count'[last_step.uid] = query_count[last_step.uid]
    /\ last_step.kind = "insufficient" => PeerState(last_step.uid) = "Refused"

TerminalStaysTerminal ==
    mode \in {"single", "batch"} =>
        \A uid \in Miners :
            /\ PeerState(uid) # "Active" => PeerState(uid)' = PeerState(uid)
            /\ PeerState(uid) \in {"Refused", "TimedOut"} =>
                  /\ PeerFields(uid)' = PeerFields(uid)
                  /\ query_count'[uid] = query_count[uid]
                  /\ last_query'[uid] = last_query[uid]

C7_TerminalStatesAreFinal == [][TerminalStaysTerminal]_vars

\* C7 witness: a peer is Refused or TimedOut while the batch has run a later step
\* in which the other peer rebalanced.
C7_Witness ==
    /\ mode = "batch"
    /\ \E uid \in Miners, other \in Miners :
          /\ PeerState(uid) \in {"Refused", "TimedOut"}
          /\ query_count[uid] < query_count[other]
          /\ per_miner_rebalances_so_far[other] > 0

\* C10 as claimed: accepted=true with desired_positions=None keeps the peer active.
C10_NoPositionsKeepsPeerActive ==
    last_step.kind = "no_positions" => PeerState(last_step.uid) = "Active"

\* C10, the state that refutes it: a peer that answered accepted=true without desired
\* positions is refused for the rest of the round.
C10_NoPositionsRefusesPeer ==
    /\ last_step.kind = "no_positions"
    /\ PeerState(last_step.uid) = "Refused"

\* C9 as claimed: when an on-chain execution failed during a live round, the round
\* leaves the miner's persisted live score as it was.
C9_FailedExecutionKeepsScore ==
    (mode = "live" /\ lpc = "completed" /\ execution_failures > 0) =>
        /\ ~live_score_updated
        /\ miner_live_score = live_score_before

\* C9 amended: a completed live round leaves the persisted live score unmodified when
\* it made at least one execution attempt and every attempt failed; when only some
\* attempts failed (or none) the score is overwritten with the round's score.
C9_AllFailedKeepsScore ==
    (mode = "live" /\ lpc = "completed") =>
        IF Len(execution_results) > 0 /\ execution_failures = Len(execution_results)
        THEN ~live_score_updated /\ miner_live_score = live_score_before
        ELSE live_score_updated /\ miner_live_score = results[miner_uid].score

\* C9 witness: a completed live round all of whose execution attempts failed.
C9_Witness ==
    /\ mode = "live"
    /\ lpc = "completed"
    /\ execution_failures > 0
    /\ execution_failures = Len(execution_results)
    /\ miner_live_score = live_score_before

\* C9, the state that refutes the claim as stated: an execution failed, another
\* succeeded, and the live score was overwritten.
C9_PartialFailureOverwrites ==
    /\ mode = "live"
    /\ lpc = "completed"
    /\ execution_failures > 0
    /\ execution_failures < Len(execution_results)
    /\ live_score_updated
    /\ miner_live_score # live_score_before

(***************************************************************************)
(* Execution gateway: execute_strategy_onchain (orchestrator/executor.py)  *)
(***************************************************************************)
\* calls of execute_strategy_onchain explored
MaxExecCalls == 3

ExecutorUrls == {"None", "http://executor"}
TxHashes == {"None", "0xabc"}
\* data.get("error") of a 200 response
ResponseErrors == {"None", "reverted"}
ExecMiners == {1, 2}

\* job_repository.create_live_execution: one more persisted record, status pending
create_live_execution(miner, tx_hash) ==
    Append(live_executions,
           [execution_id |-> Len(live_executions) + 1, miner_uid |-> miner,
            tx_hash |-> tx_hash, tx_status |-> "pending", error |-> "None"])

\* the record left as it was created
SaveFailedSkipped(records, error) == records

\* ex.tx_status = "failed"; ex.actual_performance = {"error": ...}; await ex.save()
\* on the record created last
SaveFailed(records, error) ==
    [records EXCEPT ![Len(records)] =
        [@ EXCEPT !.tx_status = "failed", !.error = error]]

ExecReturn(success, execution_id, tx_hash, error) ==
    [success |-> success, execution_id |-> execution_id, tx_hash |-> tx_hash,
     error |-> error, returned |-> TRUE]

InitExec ==
    /\ IdleLoop /\ IdleVault /\ IdleSched
    /\ IdleLive /\ IdleWinner /\ IdleRound /\ IdlePure /\ IdleSelect /\ IdleQuery /\ IdleFilter
    /\ executor_bot_url \in ExecutorUrls
    /\ live_executions = <<>>
    /\ exec_calls = 0
    /\ exec_result = NoExecResult

\* "if not executor_url": return without calling the bot
ExecNoUrl ==
    /\ exec_calls < MaxExecCalls
    /\ executor_bot_url = "None"
    /\ exec_calls' = exec_calls + 1
    /\ exec_result' = ExecReturn(FALSE, 0, "None", "No executor bot URL configured")
    /\ UNCHANGED <<executor_bot_url, live_executions, outsideExec>>

\* response.status_code == 200: parse the body, create the record, mark it failed if
\* the body carries an error; a database exception is caught
ExecStatus200 ==
    /\ exec_calls < MaxExecCalls
    /\ executor_bot_url # "None"
    /\ exec_calls' = exec_calls + 1
    /\ \E miner \in ExecMiners, parsed \in BOOLEAN, tx \in TxHashes,
          err \in ResponseErrors, create_ok \in BOOLEAN, save_ok \in BOOLEAN :
          LET tx_hash == IF parsed THEN tx ELSE "None"
              error   == IF parsed THEN err ELSE "None"
              created == create_live_execution(miner, tx_hash)
          IN  IF ~create_ok THEN
                  /\ UNCHANGED live_executions
                  /\ exec_result' = ExecReturn(FALSE, 0, tx_hash, "Database error")
              ELSE IF error = "None" THEN
                  /\ live_executions' = created
                  /\ exec_result' = ExecReturn(TRUE, Len(created), tx_hash, "None")
              ELSE IF save_ok THEN
                  /\ live_executions' = SaveFailed(created, error)
                  /\ exec_result' = ExecReturn(FALSE, Len(created), tx_hash, error)
              ELSE
                  /\ live_executions' = created
                  /\ exec_result' = ExecReturn(FALSE, 0, tx_hash, "Database error")
    /\ UNCHANGED <<executor_bot_url, outsideExec>>

\* _create_failed_execution_async: the id of the failed record, None on a database error
\* (a record whose save failed stays as it was created)
ExecFailure ==
    /\ exec_calls < MaxExecCalls
    /\ executor_bot_url # "None"
    /\ exec_calls' = exec_calls + 1
    /\ \E miner \in ExecMiners, create_ok \in BOOLEAN, save_ok \in BOOLEAN,
          err_msg \in {"Executor bot returned status 500", "HTTP client error",
                       "Unexpected error"} :
          LET created == create_live_execution(miner, "None")
          IN  IF ~create_ok THEN
                  /\ UNCHANGED live_executions
                  /\ exec_result' = ExecReturn(FALSE, 0, "None", err_msg)
              ELSE IF save_ok THEN
                  /\ live_executions' = SaveFailed(created, err_msg)
                  /\ exec_result' = ExecReturn(FALSE, Len(created), "None", err_msg)
              ELSE
                  /\ live_executions' = created
                  /\ exec_result' = ExecReturn(FALSE, 0, "None", err_msg)
    /\ UNCHANGED <<executor_bot_url, outsideExec>>

NextExec == ExecNoUrl \/ ExecStatus200 \/ ExecFailure

SpecExec == InitExec /\ [][NextExec]_vars

\* C3: every call of execute_strategy_onchain, whatever its outcome, has produced
\* exactly one persisted execution record, with status pending or failed.
C3_OneRecordPerCall ==
    /\ Len(live_executions) = exec_calls
    /\ \A i \in 1..Len(live_executions) :
          live_executions[i].tx_status \in {"pending", "failed"}

\* C3, the state that refutes it: a call returned with no executor URL configured
\* and nothing was persisted.
C3_NoUrlNoRecord ==
    /\ exec_result.returned
    /\ exec_result.error = "No executor bot URL configured"
    /\ exec_calls = 1
    /\ live_executions = <<>>

(***************************************************************************)
(* Vault registration (services/vault.py, repositories/vault.py)           *)
(***************************************************************************)
\* register_miner_vault calls explored
MaxRegistrations == 3

\* 32-byte account ids
AccountIds == {1, 2}
VaultMiners == {1, 2}

\* hotkeys as the caller writes them: 64 hex digits (upper or lower case, with or
\* without 0x), an SS58 address, or a string that is neither
HexHotkey(id, upper, prefixed) ==
    [fmt |-> "hex", id |-> id, upper |-> upper, prefixed |-> prefixed]
SS58Hotkey(id) == [fmt |-> "ss58", id |-> id, upper |-> FALSE, prefixed |-> FALSE]
JunkHotkey == [fmt |-> "junk", id |-> 0, upper |-> TRUE, prefixed |-> FALSE]
Hotkeys == {HexHotkey(1, FALSE, TRUE), HexHotkey(2, TRUE, FALSE),
            SS58Hotkey(1), SS58Hotkey(2), JunkHotkey}

\* a hex string of 32 bytes, or some other text
Bytes32Hex(id, upper) == [kind |-> "hex32", id |-> id, upper |-> upper]
OtherText(upper) == [kind |-> "text", id |-> 0, upper |-> upper]
lower(str) == [str EXCEPT !.upper = FALSE]

\* ss58_to_bytes32(hotkey).hex()
ss58_to_bytes32(hotkey) == Bytes32Hex(hotkey.id, FALSE)

\* _normalize_hotkey_to_bytes32: strip 0x, 64 hex digits lowercased, else SS58 decoded,
\* else the string lowercased
normalize_hotkey_to_bytes32(hotkey) ==
    IF hotkey.fmt = "hex" THEN lower(Bytes32Hex(hotkey.id, hotkey.upper))
    ELSE IF hotkey.fmt = "ss58" THEN ss58_to_bytes32(hotkey)
    ELSE lower(OtherText(hotkey.upper))

\* vault addresses as callers write them, and vault_address.lower()
VaultAddresses == {"0xaa", "0xAA", "0xbb"}
lower_address(vault_address) == IF vault_address = "0xAA" THEN "0xaa" ELSE vault_address
VaultKeys == {lower_address(a) : a \in VaultAddresses}

\* verify_associated_miner: compare associatedMiner().hex() with the normalized
\* hotkey, case-insensitively; any exception gives False
verify_associated_miner(vault_address, expected_miner_hotkey, rpc_ok) ==
    IF ~rpc_ok THEN FALSE
    ELSE lower(Bytes32Hex(associated_miner[lower_address(vault_address)], FALSE))
            = lower(normalize_hotkey_to_bytes32(expected_miner_hotkey))

\* VaultRepository.register_vault: get_or_create by lowercased address; an existing
\* row gets the new miner_uid, miner_hotkey and is_active = True
register_vault(table, miner, hotkey, vault_address) ==
    LET key == lower_address(vault_address)
    IN  IF ~table[key].exists
        THEN [table EXCEPT ![key] =
                 [exists |-> TRUE, miner_uid |-> miner, miner_hotkey |-> hotkey,
                  is_verified |-> FALSE, is_active |-> TRUE]]
        ELSE [table EXCEPT ![key] =
                 [@ EXCEPT !.miner_uid = miner, !.miner_hotkey = hotkey,
                           !.is_active = TRUE]]

\* VaultRepository.verify_vault
verify_vault(table, vault_address) ==
    LET key == lower_address(vault_address)
    IN  IF table[key].exists THEN [table EXCEPT ![key].is_verified = TRUE] ELSE table

\* VaultRepository.get_verified_vault_by_miner(miner) is not None
has_verified_vault(miner) ==
    \E key \in VaultKeys :
        /\ miner_vaults[key].exists
        /\ miner_vaults[key].miner_uid = miner
        /\ miner_vaults[key].is_verified
        /\ miner_vaults[key].is_active

InitVault ==
    /\ IdleLoop /\ IdleExec /\ IdleSched
    /\ IdleLive /\ IdleWinner /\ IdleRound /\ IdlePure /\ IdleSelect /\ IdleQuery /\ IdleFilter
    /\ miner_vaults = [key \in VaultKeys |-> NoVault]
    /\ associated_miner \in [VaultKeys -> AccountIds]
    /\ vault_regs = 0
    /\ vault_last = NoRegistration

\* VaultService.register_miner_vault
RegisterMinerVault ==
    /\ vault_regs < MaxRegistrations
    /\ vault_regs' = vault_regs + 1
    /\ \E miner \in VaultMiners, hotkey \in Hotkeys, vault_address \in VaultAddresses,
          auto_verify \in BOOLEAN, rpc_ok \in BOOLEAN :
          LET registered    == register_vault(miner_vaults, miner, hotkey, vault_address)
              is_associated == verify_associated_miner(vault_address, hotkey, rpc_ok)
          IN  /\ miner_vaults' = IF auto_verify /\ is_associated
                                 THEN verify_vault(registered, vault_address)
                                 ELSE registered
              /\ vault_last' =
                    [miner_uid |-> miner, vault_address |-> lower_address(vault_address),
                     mismatch |-> Bytes32Hex(associated_miner[lower_address(vault_address)],
                                             FALSE)
                                  # normalize_hotkey_to_bytes32(hotkey),
                     is_associated |-> auto_verify /\ is_associated,
                     auto_verify |-> auto_verify]
    /\ UNCHANGED <<associated_miner, outsideVault>>

NextVault == RegisterMinerVault

SpecVault == InitVault /\ [][NextVault]_vars

\* C4: after any sequence of registrations, when the vault's on-chain associated
\* miner does not match the registering miner's decoded hotkey, verification returned
\* false and the vault row now registered to that miner is not verified.
C4_MismatchLeavesVaultUnverified ==
    vault_last.mismatch =>
        /\ ~vault_last.is_associated
        /\ ~miner_vaults[vault_last.vault_address].is_verified
        /\ miner_vaults[vault_last.vault_address].miner_uid = vault_last.miner_uid

\* C4, the state that refutes it: the last registration did not match, verification
\* returned false, and the row carries the registering miner's uid with is_verified
\* still true, so that miner has a verified vault.
C4_MismatchKeepsVerified ==
    /\ vault_last.mismatch
    /\ ~vault_last.is_associated
    /\ miner_vaults[vault_last.vault_address].miner_uid = vault_last.miner_uid
    /\ miner_vaults[vault_last.vault_address].is_verified
    /\ has_verified_vault(vault_last.miner_uid)

(***************************************************************************)
(* Job scheduler: monitor_and_run_jobs (validator.py)                      *)
(***************************************************************************)
\* iterations of the monitor loop explored
MaxPolls == 4

JobIds == {1, 2, 3}

InitSched ==
    /\ IdleLoop /\ IdleExec /\ IdleVault
    /\ IdleLive /\ IdleWinner /\ IdleRound /\ IdlePure /\ IdleSelect /\ IdleQuery /\ IdleFilter
    /\ active_jobs \in SUBSET JobIds
    /\ running_jobs = {}
    /\ task_state = [j \in JobIds |-> "none"]
    /\ monitor_polls = 0
    /\ monitor_last = NoPoll

\* an operator activates or deactivates a job in the database between two polls
ChangeActiveJobs ==
    /\ monitor_polls < MaxPolls
    /\ \E j \in JobIds :
          active_jobs' = IF j \in active_jobs THEN active_jobs \ {j}
                                              ELSE active_jobs \cup {j}
    /\ UNCHANGED <<running_jobs, task_state, monitor_polls, monitor_last, outsideSched>>

\* one iteration of "while True": read the active jobs; with none, sleep and continue;
\* otherwise start a task for every new job, cancel and delete the task of every
\* running job that is not active
MonitorPoll ==
    /\ monitor_polls < MaxPolls
    /\ monitor_polls' = monitor_polls + 1
    /\ monitor_last' = [polled |-> TRUE, failed |-> FALSE, active_jobs |-> active_jobs,
                        running_before |-> running_jobs]
    /\ IF active_jobs = {} THEN
          UNCHANGED <<running_jobs, task_state>>
       ELSE
          LET started      == running_jobs \cup active_jobs
              removed_jobs == started \ active_jobs
          IN  /\ running_jobs' = started \ removed_jobs
              /\ task_state' =
                    [j \in JobIds |->
                        IF j \in removed_jobs THEN "cancelled"
                        ELSE IF j \in active_jobs \ running_jobs THEN "running"
                        ELSE task_state[j]]
    /\ UNCHANGED <<active_jobs, outsideSched>>

\* get_active_jobs raises: "except Exception" logs and sleeps
MonitorPollError ==
    /\ monitor_polls < MaxPolls
    /\ monitor_polls' = monitor_polls + 1
    /\ monitor_last' = [polled |-> TRUE, failed |-> TRUE, active_jobs |-> active_jobs,
                        running_before |-> running_jobs]
    /\ UNCHANGED <<active_jobs, running_jobs, task_state, outsideSched>>

NextSched == ChangeActiveJobs \/ MonitorPoll \/ MonitorPollError

SpecSched == InitSched /\ [][NextSched]_vars

\* C5: whenever a poll read an active set (empty or not), every job that had a running
\* task and is not in that set has had its task cancelled and removed from the
\* registry at that poll.
C5_InactiveJobsCancelledAtPoll ==
    (monitor_last.polled /\ ~monitor_last.failed) =>
        \A j \in monitor_last.running_before \ monitor_last.active_jobs :
            j \notin running_jobs /\ task_state[j] = "cancelled"

\* C5, the state that refutes it: the poll read an empty active set while a task
\* was running, and the task is still registered and running.
C5_EmptySetKeepsTasks ==
    /\ monitor_last.polled
    /\ ~monitor_last.failed
    /\ monitor_last.active_jobs = {}
    /\ \E j \in monitor_last.running_before :
          j \in running_jobs /\ task_state[j] = "running"

(***************************************************************************)
(* Evaluation round: scores, winner, completion                            *)
(* (round_orchestrator.py _evaluate_miners / run_evaluation_round,         *)
(*  orchestrator/winner.py select_winner)                                  *)
(***************************************************************************)
active_uids == {1, 2, 3}
\* persisted combined scores; a uid without a MinerScore row has no entry
HistoricScores == {-5, 5}

\* the results run_with_miners_batch_for_evaluation can return for one uid: refused,
\* accepted with an empty history (score 0.0), accepted with a backtest score
LoopResults ==
    {Result(FALSE, "declined", <<>>, TRUE, 0), Result(TRUE, "None", <<>>, TRUE, 0)}
        \cup {Result(TRUE, "None", <<>>, TRUE, sc) : sc \in Scores}

\* score_val = res["score"] if res["accepted"] else 0.0
ScoreEntry(res) ==
    [score |-> IF res.accepted THEN res.score ELSE 0, accepted |-> res.accepted]

\* Scorer.rank_miners_by_score_and_history: uid a is ranked before uid b
RankedBefore(round_scores, hist, a, b) ==
    LET historic_score(uid) == IF uid \in DOMAIN hist THEN hist[uid] ELSE 0
    IN  \/ round_scores[a] > round_scores[b]
        \/ round_scores[a] = round_scores[b] /\ historic_score(a) > historic_score(b)

\* the uids that can be ranked[0]: nobody is ranked before them
rank_first(round_scores, hist) ==
    {a \in DOMAIN round_scores :
        \A b \in DOMAIN round_scores : ~RankedBefore(round_scores, hist, b, a)}

\* a winner taken from anywhere in the ranking
select_winner_any(scs, hist) ==
    IF DOMAIN scs = {} THEN {NoWinner}
    ELSE {[miner_uid |-> uid, score |-> scs[uid].score] : uid \in DOMAIN scs}

\* select_winner: None without scores, else the first of the ranking
select_winner(scs, hist) ==
    IF DOMAIN scs = {} THEN {NoWinner}
    ELSE LET round_scores == [uid \in DOMAIN scs |-> scs[uid].score]
         IN  {[miner_uid |-> uid, score |-> scs[uid].score] :
                 uid \in rank_first(round_scores, hist)}

InitWinner ==
    /\ IdleLoop /\ IdleExec /\ IdleVault
    /\ IdleSched /\ IdleLive /\ IdleRound /\ IdlePure /\ IdleSelect /\ IdleQuery /\ IdleFilter
    /\ eval_results \in [active_uids -> LoopResults]
    /\ miner_scores \in UNION {[with_history -> HistoricScores] :
                                  with_history \in SUBSET active_uids}
    /\ score_updates = {}
    /\ historic = <<>>
    /\ scores = <<>>
    /\ winner = NoWinner
    /\ eval_round = [status |-> "active", winner_uid |-> 0]
    /\ wpc = "evaluate"

\* _evaluate_miners: every uid of the results gets a scores entry
EvaluateMiners ==
    /\ wpc = "evaluate"
    /\ scores' = [uid \in DOMAIN eval_results |-> ScoreEntry(eval_results[uid])]
    /\ wpc' = "select"
    /\ UNCHANGED <<eval_results, miner_scores, score_updates, historic, winner,
                   eval_round, outsideWinner>>

\* winner = await select_winner(self.job_repository, job.job_id, scores): reads the
\* historic combined scores and ranks
SelectWinner ==
    /\ wpc = "select"
    /\ historic' = miner_scores
    /\ winner' \in select_winner(scores, historic')
    /\ wpc' = "complete"
    /\ UNCHANGED <<eval_results, miner_scores, score_updates, scores, eval_round,
                   outsideWinner>>

\* complete_round(winner_uid = winner["miner_uid"] if winner else None)
CompleteEvaluationRound ==
    /\ wpc = "complete"
    /\ eval_round' = [status |-> "completed", winner_uid |-> winner.miner_uid]
    /\ wpc' = "update"
    /\ UNCHANGED <<eval_results, miner_scores, score_updates, historic, scores, winner,
                   outsideWinner>>

\* items = list(scores.items()): the uids in the order of the scores dict
ScoreItems ==
    LET uids == DOMAIN scores
    IN  [i \in 1..Cardinality(uids) |->
            CHOOSE u \in uids : Cardinality({v \in uids : v < u}) = i - 1]

\* the uids of the batch items[i : i + EVALUATION_BATCH_SIZE] being gathered: the
\* batches before it are done
CurrentUpdateBatch ==
    LET done == Cardinality(score_updates)
        first == (done \div EVALUATION_BATCH_SIZE) * EVALUATION_BATCH_SIZE + 1
        last == Min2(first + EVALUATION_BATCH_SIZE - 1, Len(ScoreItems))
    IN  {ScoreItems[i] : i \in first..last} \ score_updates

\* the update loop as if it ran from the start of the selection on
ScoreUpdatesStartedEarly == wpc \in {"select", "update"}

\* the update loop follows select_winner and complete_round
ScoreUpdatesStarted == wpc = "update"

\* job_repository.update_miner_score(evaluation_score=...): the combined score takes
\* in the round's score
update_combined_score(uid) ==
    DictPut(miner_scores, uid,
            (IF uid \in DOMAIN miner_scores THEN miner_scores[uid] ELSE 0)
                + scores[uid].score)

\* _update_one(uid, data): update_miner_score, then update_miner_participation
UpdateOne ==
    /\ ScoreUpdatesStarted
    /\ \E uid \in CurrentUpdateBatch :
          /\ miner_scores' = update_combined_score(uid)
          /\ score_updates' = score_updates \cup {uid}
    /\ UNCHANGED <<eval_results, historic, scores, winner, eval_round, wpc,
                   outsideWinner>>

\* every batch was gathered: "Completed evaluation round"
FinishEvaluationRound ==
    /\ wpc = "update"
    /\ score_updates = DOMAIN scores
    /\ wpc' = "done"
    /\ UNCHANGED <<eval_results, miner_scores, score_updates, historic, scores, winner,
                   eval_round, outsideWinner>>

NextWinner ==
    \/ EvaluateMiners
    \/ SelectWinner
    \/ CompleteEvaluationRound
    \/ UpdateOne
    \/ FinishEvaluationRound

SpecWinner == InitWinner /\ [][NextWinner]_vars

\* C2: the winner recorded for a completed evaluation round is a peer whose result
\* was accepted, and when no peer was accepted the round has no winner.
C2_WinnerWasAccepted ==
    eval_round.status = "completed" =>
        IF \E uid \in active_uids : eval_results[uid].accepted
        THEN eval_round.winner_uid \in active_uids
             /\ eval_results[eval_round.winner_uid].accepted
        ELSE eval_round.winner_uid = 0

\* C2, the state that refutes it: a completed round whose recorded winner was not
\* accepted in that round.
C2_WinnerNotAccepted ==
    /\ eval_round.status = "completed"
    /\ eval_round.winner_uid \in active_uids
    /\ ~eval_results[eval_round.winner_uid].accepted

(***************************************************************************)
(* Job task and round numbering (round_orchestrator.py)                    *)
(***************************************************************************)
\* asyncio.gather calls of run_job_continuously explored
MaxIterations == 2

RoundTypes == {"evaluation", "live"}

\* Round.filter(job, round_type).order_by("-round_number").first(), 0 without a row
HighestPersisted(round_type) ==
    LET ns == {rounds[i].round_number :
                  i \in {k \in 1..Len(rounds) : rounds[k].round_type = round_type}}
    IN  IF ns = {} THEN 0 ELSE CHOOSE n \in ns : \A m \in ns : m <= n

\* a coroutine's locals: round_number, and round_obj as the index of its row (0: none)
Coro(round_type) ==
    [round_type |-> round_type, pc |-> "start", round_number |-> 0, round_obj |-> 0]

\* a coroutine that has ended: "done" (returned) or "failed" (raised); once the gather
\* that awaited it is over only the fact that it ended is left
Ended(c, how) ==
    [coros EXCEPT ![c].pc = IF c \in gather_children THEN how ELSE "done",
                  ![c].round_number = 0, ![c].round_obj = 0]

\* job_repository.create_round: one more Round row with the number it was given,
\* status active
create_round(round_type, round_number) ==
    Append(rounds, [round_type |-> round_type, round_number |-> round_number,
                    status |-> "active"])

\* job_repository.complete_round(round_id, winner_uid, performance_data): the row
\* gets status completed with the winner and the performance payload
complete_round(round_id) ==
    [rounds EXCEPT ![round_id].status = "completed"]

InitRound ==
    /\ IdleLoop /\ IdleExec /\ IdleVault
    /\ IdleSched /\ IdleLive /\ IdleWinner /\ IdlePure /\ IdleSelect /\ IdleQuery /\ IdleFilter
    /\ round_numbers = "unset"
    /\ rounds = <<>>
    /\ coros = <<>>
    /\ gather_children = {}
    /\ job_pc = "init"
    /\ iterations = 0

\* run_job_continuously: "if job.job_id not in self.round_numbers" -> initialise from
\* the highest persisted round numbers
InitializeRoundNumbers ==
    /\ job_pc = "init"
    /\ round_numbers' = IF round_numbers = "unset"
                        THEN [t \in RoundTypes |-> HighestPersisted(t)]
                        ELSE round_numbers
    /\ job_pc' = "loop"
    /\ UNCHANGED <<rounds, coros, gather_children, iterations, outsideRound>>

\* asyncio.gather(run_evaluation_round(job), run_live_round(job))
StartRounds ==
    /\ job_pc = "loop"
    /\ iterations < MaxIterations
    /\ iterations' = iterations + 1
    /\ coros' = coros \o <<Coro("evaluation"), Coro("live")>>
    /\ gather_children' = {Len(coros) + 1, Len(coros) + 2}
    /\ job_pc' = "gather"
    /\ UNCHANGED <<round_numbers, rounds, outsideRound>>

\* "if not active_uids: return" / "if not ranking: return" / "if winner_uid is None:
\* return": the coroutine ends without a round
SkipRound ==
    /\ \E c \in 1..Len(coros) :
          /\ coros[c].pc = "start"
          /\ coros' = Ended(c, "done")
    /\ UNCHANGED <<round_numbers, rounds, gather_children, job_pc, iterations,
                   outsideRound>>

\* self.round_numbers[job_id][type] += 1; round_number = self.round_numbers[job_id][type];
\* then the coroutine awaits _get_latest_block and create_round
TakeRoundNumber ==
    /\ \E c \in 1..Len(coros) :
          /\ coros[c].pc = "start"
          /\ LET t == coros[c].round_type
                 n == round_numbers[t] + 1
             IN  /\ round_numbers' = [round_numbers EXCEPT ![t] = n]
                 /\ coros' = [coros EXCEPT ![c].pc = "create", ![c].round_number = n]
    /\ UNCHANGED <<rounds, gather_children, job_pc, iterations, outsideRound>>

\* round_obj = await create_round(...); self.round_numbers[job_id][type] =
\* round_obj.round_number
CreateRound ==
    /\ \E c \in 1..Len(coros) :
          /\ coros[c].pc = "create"
          /\ LET t == coros[c].round_type
             IN  /\ rounds' = create_round(t, coros[c].round_number)
                 /\ round_numbers' =
                       [round_numbers EXCEPT ![t] = coros[c].round_number]
          /\ coros' = [coros EXCEPT ![c].pc = "run", ![c].round_obj = Len(rounds) + 1]
    /\ UNCHANGED <<gather_children, job_pc, iterations, outsideRound>>

\* the round runs to its deadline, is completed and the coroutine returns
CompleteRound ==
    /\ \E c \in 1..Len(coros) :
          /\ coros[c].pc = "run"
          /\ rounds' = complete_round(coros[c].round_obj)
          /\ coros' = Ended(c, "done")
    /\ UNCHANGED <<round_numbers, gather_children, job_pc, iterations, outsideRound>>

\* an awaited call raises (the ranking query of a live round, _get_latest_block,
\* create_round, anything while the round runs): the coroutine ends with the exception
RoundRaises ==
    /\ \E c \in 1..Len(coros) :
          /\ \/ coros[c].pc \in {"create", "run"}
             \/ coros[c].pc = "start" /\ coros[c].round_type = "live"
          /\ coros' = Ended(c, "failed")
    /\ UNCHANGED <<round_numbers, rounds, gather_children, job_pc, iterations,
                   outsideRound>>

\* both coroutines returned: sleep(round_duration_seconds), next iteration
GatherReturns ==
    /\ job_pc = "gather"
    /\ \A c \in gather_children : coros[c].pc = "done"
    /\ gather_children' = {}
    /\ job_pc' = "loop"
    /\ UNCHANGED <<round_numbers, rounds, coros, iterations, outsideRound>>

\* no except clause: the exception of a round would end the job task
GatherRaisesUncaught ==
    /\ job_pc = "gather"
    /\ \E c \in gather_children : coros[c].pc = "failed"
    /\ gather_children' = {}
    /\ job_pc' = "ended"
    /\ UNCHANGED <<round_numbers, rounds, coros, iterations, outsideRound>>

\* gather without return_exceptions: the first exception is raised to the caller at
\* once and the other coroutine keeps running; "except Exception": sleep, next iteration
GatherRaises ==
    /\ job_pc = "gather"
    /\ \E c \in gather_children : coros[c].pc = "failed"
    /\ gather_children' = {}
    /\ coros' = [c \in 1..Len(coros) |->
                    IF coros[c].pc \in {"done", "failed"}
                    THEN [coros[c] EXCEPT !.pc = "done"] ELSE coros[c]]
    /\ job_pc' = "loop"
    /\ UNCHANGED <<round_numbers, rounds, iterations, outsideRound>>

\* the validator process is restarted: a new orchestrator, no coroutines, the Round
\* rows stay
Restart ==
    /\ job_pc # "init"
    /\ round_numbers' = "unset"
    /\ coros' = <<>>
    /\ gather_children' = {}
    /\ job_pc' = "init"
    /\ UNCHANGED <<rounds, iterations, outsideRound>>

NextRound ==
    \/ InitializeRoundNumbers
    \/ StartRounds
    \/ SkipRound
    \/ TakeRoundNumber
    \/ CreateRound
    \/ CompleteRound
    \/ RoundRaises
    \/ GatherReturns
    \/ GatherRaises
    \/ Restart

SpecRound == InitRound /\ [][NextRound]_vars

\* C8: per round type, the round numbers of the created rounds are strictly
\* increasing in creation order.
C8_RoundNumbersStrictlyIncreasing ==
    \A i \in 1..Len(rounds), j \in 1..Len(rounds) :
        (i < j /\ rounds[i].round_type = rounds[j].round_type) =>
            rounds[i].round_number < rounds[j].round_number

\* C8, the state that refutes it: a round was created after a round of the same type
\* with a number that is not larger.
C8_LaterRoundNotLarger ==
    \E i \in 1..Len(rounds), j \in 1..Len(rounds) :
        /\ i < j
        /\ rounds[i].round_type = rounds[j].round_type
        /\ rounds[i].round_number >= rounds[j].round_number

(***************************************************************************)
(* Pure functions called on their own: the position tolerance check and    *)
(* the liquidity math (round_loops.py, backtester.py)                      *)
(***************************************************************************)
\* longest position list compared
MaxPositions == 2

\* a second position on the range of PosA, outside the tolerance of PosA
PosA3 == Pos(0, 2, 100, 50)

\* position lists of at most MaxPositions entries, repeated ranges included
PositionLists ==
    UNION {[1..n -> {PosA, PosA2, PosA3, PosB}] : n \in 0..MaxPositions}

\* (current, desired) of _positions_within_tolerance
ToleranceCalls == PositionLists \X PositionLists

\* UniswapV3Math.get_liquidity_for_amounts, square-root prices in units of 1/SqrtScale
get_liquidity_for_amounts(sqrt_price, sqrt_price_a, sqrt_price_b, amount0, amount1) ==
    LET a == Min2(sqrt_price_a, sqrt_price_b)
        b == Max2(sqrt_price_a, sqrt_price_b)
        liquidity0 == IF b > sqrt_price
                      THEN (amount0 * sqrt_price * b) \div ((b - sqrt_price) * SqrtScale)
                      ELSE 0
        liquidity1 == IF sqrt_price > a
                      THEN (amount1 * SqrtScale) \div (sqrt_price - a)
                      ELSE 0
    IN  IF sqrt_price <= a THEN
            IF b = a THEN 0
            ELSE Max2(0, (amount0 * a * b) \div ((b - a) * SqrtScale))
        ELSE IF sqrt_price < b THEN
            Max2(0, IF liquidity0 > 0 /\ liquidity1 > 0
                    THEN Min2(liquidity0, liquidity1)
                    ELSE Max2(liquidity0, liquidity1))
        ELSE
            IF b = a THEN 0
            ELSE Max2(0, (amount1 * SqrtScale) \div (b - a))

\* UniswapV3Math.get_amounts_for_liquidity: (amount0, amount1)
get_amounts_for_liquidity(sqrt_price, sqrt_price_a, sqrt_price_b, liquidity) ==
    LET a == Min2(sqrt_price_a, sqrt_price_b)
        b == Max2(sqrt_price_a, sqrt_price_b)
    IN  IF liquidity <= 0 THEN <<0, 0>>
        ELSE IF sqrt_price <= a THEN
            IF a = 0 \/ b = 0 THEN <<0, 0>>
            ELSE <<Max2(0, (liquidity * (b - a) * SqrtScale) \div (a * b)), 0>>
        ELSE IF sqrt_price < b THEN
            IF sqrt_price = 0 \/ b = 0 THEN <<0, 0>>
            ELSE <<Max2(0, (liquidity * (b - sqrt_price) * SqrtScale)
                               \div (sqrt_price * b)),
                   Max2(0, (liquidity * (sqrt_price - a)) \div SqrtScale)>>
        ELSE <<0, Max2(0, (liquidity * (b - a)) \div SqrtScale)>>

\* token amounts supplied, one-sided ones included
Amounts == {0, 10, 100}

\* (sqrt_price, sqrt_price_a, sqrt_price_b, amount0, amount1)
LiquidityCalls == (2..7) \X {2, 6} \X {3, 6} \X Amounts \X Amounts

\* (tick_lower, tick_upper, price, allocation0, allocation1)
PositionCalls == {0, 1} \X {1, 3} \X (2..6) \X Amounts \X Amounts

\* the 32 bytes of an AccountId32, scaled to the byte strings of the model
AccountIdLength == 2

\* byte values: 64 has the bit 0b01000000 that announces a two-byte prefix
Bytes == {0, 1, 64}

\* decoded addresses, _b58decode(ss58): byte strings around the expected lengths
DecodedAddresses == UNION {[1..n -> Bytes] : n \in 3..(AccountIdLength + 5)}

\* data[first:last] of Python, 0-based and clipped to the length of data
Slice(data, first, last) ==
    [i \in 1..(Min2(last, Len(data)) - Min2(first, Len(data))) |-> data[first + i]]

\* stand-in for the first two bytes of blake2b("SS58PRE" + payload): a function of
\* every byte of the payload and of its length
ss58_checksum(payload) ==
    <<(SumSeq(payload) + Len(payload)) % 2, (SumSeq(payload) \div 64) % 2>>

\* ss58_to_bytes32 from the decoded bytes on: ValueError or the account id
ss58_decode_data(data) ==
    IF Len(data) < 1 + AccountIdLength + 2
    THEN [raised |-> "Invalid SS58 address length", account_id |-> <<>>]
    ELSE LET prefix_len == IF (data[1] \div 64) % 2 = 1 THEN 2 ELSE 1
             prefix     == Slice(data, 0, prefix_len)
             account_id == Slice(data, prefix_len, prefix_len + AccountIdLength)
             checksum   == Slice(data, prefix_len + AccountIdLength,
                                 prefix_len + AccountIdLength + 2)
         IN  IF Len(account_id) # AccountIdLength
             THEN [raised |-> "Invalid AccountId length", account_id |-> <<>>]
             ELSE IF checksum # ss58_checksum(prefix \o account_id)
             THEN [raised |-> "Invalid SS58 checksum", account_id |-> <<>>]
             ELSE [raised |-> "None", account_id |-> account_id]

\* price of a tick and of a swap event, both in units of 1/SqrtScale^2
tick_to_price(tick) == tick_to_sqrt_price(tick) * tick_to_sqrt_price(tick)

\* the dict key under which a history entry carries its inventory: the simulation
\* loops write "inventory", evaluate_positions_performance reads "current_inventory"
InventoryKeys == {"inventory", "current_inventory"}

RebalanceEntry(block, new_positions, inventory_key, inventory) ==
    [block |-> block, new_positions |-> new_positions,
     inventory_key |-> inventory_key, inventory |-> inventory]

\* rebalance histories in append order: one entry below the first swap block, and
\* possibly a second one at the same block or at a later one
RebalanceHistories ==
    UNION {
        {<<RebalanceEntry(9, p, key, Inventory(3, 1))>> : p \in PositionLists}
            \cup {<<RebalanceEntry(9, p, key, Inventory(3, 1)),
                    RebalanceEntry(b, q, key, Inventory(2, 1))>> :
                     p \in PositionLists, q \in {<<>>, <<PosB>>}, b \in {9, 11}}
        : key \in InventoryKeys}

\* swap events of the block range: block and square-root price
SwapEvents ==
    UNION {[1..n -> [evt_block_number : {9, 10, 12}, sqrt_price : {3, 7}]] : n \in 0..2}

\* initial_inventory of the round
BacktestInventories == {Inventory(3, 1), Inventory(1, 3)}

\* square root of db.get_price_at_block(pair, end_block), in units of 1/SqrtScale
FinalSqrtPrices == {2, 4}

\* a list without its i-th element
RemoveAt(list, i) == SubSeq(list, 1, i - 1) \o SubSeq(list, i + 1, Len(list))

\* rebalance_history.sort(key=lambda x: x["block"], reverse=True): descending by
\* block; the sort is stable, entries of one block keep their order
RECURSIVE sort_by_block_descending(_)
sort_by_block_descending(history) ==
    IF history = <<>> THEN <<>>
    ELSE LET highest == CHOOSE i \in 1..Len(history) :
                            /\ \A j \in 1..Len(history) :
                                  history[j].block <= history[i].block
                            /\ \A j \in 1..(i - 1) : history[j].block < history[i].block
         IN  <<history[highest]>> \o sort_by_block_descending(RemoveAt(history, highest))

\* the list returned unsorted
sort_by_block_descending_not(history) == history

\* get_deployed_positions on the sorted list: new_positions of the first entry with
\* current_block > block, ValueError("Invalid rebalance history.") when there is none
get_deployed_positions(history, at_block) ==
    LET covering == {i \in 1..Len(history) : at_block > history[i].block}
    IN  IF covering = {} THEN [raised |-> TRUE, positions |-> <<>>]
        ELSE LET first == CHOOSE i \in covering : \A j \in covering : i <= j
             IN  [raised |-> FALSE, positions |-> history[first].new_positions]

\* in_range_count after the loop over swap_events: one for every deployed position
\* in range at the event's price
RECURSIVE in_range_count(_, _)
in_range_count(history, events) ==
    IF events = <<>> THEN 0
    ELSE LET event == Head(events)
             event_price == event.sqrt_price * event.sqrt_price
             positions == get_deployed_positions(history, event.evt_block_number).positions
             in_range == {i \in 1..Len(positions) :
                             /\ tick_to_price(positions[i].tick_lower) <= event_price
                             /\ event_price <= tick_to_price(positions[i].tick_upper)}
         IN  Cardinality(in_range) + in_range_count(history, Tail(events))

\* in_range_ratio = in_range_count / total_swaps if total_swaps > 0 else 0.0, as a
\* percentage
in_range_ratio(history, events) ==
    IF Len(events) > 0 THEN (in_range_count(history, events) * 100) \div Len(events)
    ELSE 0

\* hodl_value_deployed = initial.amount0 * final_price + initial.amount1, the price
\* n^2 / SqrtScale^2 brought to the denominator SqrtScale^2
hodl_value_deployed(initial, n) ==
    initial.amount0 * n * n + initial.amount1 * SqrtScale * SqrtScale

\* lp_value_deployed = amount1_holdings * final_price + amount0_holdings
lp_value_deployed(amount0_holdings, amount1_holdings, n) ==
    amount1_holdings * n * n + amount0_holdings * SqrtScale * SqrtScale

\* the holdings valued like the hold baseline: amount0 * final_price + amount1
lp_value_in_token1(amount0_holdings, amount1_holdings, n) ==
    amount0_holdings * n * n + amount1_holdings * SqrtScale * SqrtScale

\* max(0.0, (hodl - lp) / hodl) if hodl > 0 else 0.0, as a percentage
impermanent_loss(hodl_value, lp_value) ==
    IF hodl_value > 0 THEN Max2(0, ((hodl_value - lp_value) * 100) \div hodl_value)
    ELSE 0

\* what a call that raised leaves for the caller
EvaluationRaised(exception, history, positions_used) ==
    [raised |-> exception, history_as_passed |-> history,
     positions_used |-> positions_used,
     in_range_ratio |-> 0, total_swaps |-> 0, impermanent_loss |-> 0,
     amount0_holdings |-> 0, amount1_holdings |-> 0]

\* evaluate_positions_performance from the sort to the return; positions_used are the
\* positions get_deployed_positions gave for the events up to the first one it
\* raised on
evaluate_positions_performance(history, events, initial, n) ==
    LET sorted == sort_by_block_descending(history)
        deployed == [k \in 1..Len(events) |->
                        get_deployed_positions(sorted, events[k].evt_block_number)]
        uncovered == {k \in 1..Len(events) : deployed[k].raised}
        handled == IF uncovered = {} THEN Len(events)
                   ELSE (CHOOSE k \in uncovered : \A j \in uncovered : k <= j) - 1
        positions_used == [k \in 1..handled |-> deployed[k].positions]
    IN  IF uncovered # {} THEN EvaluationRaised("ValueError", history, positions_used)
        ELSE IF sorted = <<>> THEN EvaluationRaised("IndexError", history, positions_used)
        ELSE IF sorted[1].inventory_key # "current_inventory"
        THEN EvaluationRaised("KeyError", history, positions_used)
        ELSE LET total == TotalUsed(sorted[1].new_positions, n)
                 amount0_holdings == total[1] + sorted[1].inventory.amount0
                 amount1_holdings == total[2] + sorted[1].inventory.amount1
             IN  [raised |-> "None", history_as_passed |-> history,
                  positions_used |-> positions_used,
                  in_range_ratio |-> in_range_ratio(sorted, events),
                  total_swaps |-> Len(events),
                  impermanent_loss |->
                      impermanent_loss(
                          hodl_value_deployed(initial, n),
                          lp_value_deployed(amount0_holdings, amount1_holdings, n)),
                  amount0_holdings |-> amount0_holdings,
                  amount1_holdings |-> amount1_holdings]

\* rebalance steps of a round replayed to both evaluation loops
MaxSteps == 2

\* the check block of the k-th replayed step, the first one at the start block 10
StepBlock(k) == 10 + (k - 1) * rebalance_check_interval

\* the steps of a round: the pool price after the query and the miner's response
LoopInputs ==
    UNION {[1..n -> [price : Prices, response : Responses]] : n \in 1..MaxSteps}

\* the locals of a loop for one miner
LoopState(positions, inventory) ==
    [positions |-> positions, inventory |-> inventory, history |-> <<>>,
     rebalances_so_far |-> 0, ended |-> FALSE, refusal_reason |-> "None"]

\* the locals after a committed rebalance
Rebalanced(state, block, price, desired, inventory) ==
    [state EXCEPT !.history = Append(@, HistoryEntry(block, price, price,
                                                    state.positions, desired, inventory)),
                  !.positions = desired,
                  !.inventory = inventory,
                  !.rebalances_so_far = @ + 1]

\* the peer left the loop: refused in the batched loop, returned in the other
Ends(state, reason) == [state EXCEPT !.ended = TRUE, !.refusal_reason = reason]

\* run_with_miners_batch_for_evaluation with miner_uids = [uid]: the locals of the
\* one miner after the steps
RECURSIVE batch_loop(_, _, _)
batch_loop(state, inputs, k) ==
    IF k > Len(inputs) THEN state
    ELSE LET response == inputs[k].response
             total == TotalUsed(response.desired_positions, inputs[k].price)
             inv_0 == state.inventory.amount0 - total[1]
             inv_1 == state.inventory.amount1 - total[2]
             next ==
                 IF state.ended THEN state
                 ELSE IF ~response.usable THEN Ends(state, "Timeout or error")
                 ELSE IF ~response.accepted THEN Ends(state, response.refusal_reason)
                 ELSE IF ~response.has_desired THEN Ends(state, "Miner not running")
                 ELSE IF positions_within_tolerance(state.positions,
                                                    response.desired_positions)
                 THEN state
                 ELSE IF InsufficientInventory(inv_0, inv_1)
                 THEN Ends(state, "Insufficient inventory from desired positions")
                 ELSE Rebalanced(state, StepBlock(k), inputs[k].price,
                                 response.desired_positions, Inventory(inv_0, inv_1))
         IN  batch_loop(next, inputs, k + 1)

\* run_with_miner_for_evaluation: the locals after the steps, or at the early return
RECURSIVE single_loop(_, _, _, _)
single_loop(state, inputs, k, initial) ==
    IF k > Len(inputs) \/ state.ended THEN state
    ELSE LET response == inputs[k].response
             total == TotalUsed(response.desired_positions, inputs[k].price)
             amount_0_int == initial.amount0 - total[1]
             amount_1_int == initial.amount1 - total[2]
             next ==
                 IF ~response.usable THEN Ends(state, "Timeout or error")
                 ELSE IF ~response.accepted THEN Ends(state, response.refusal_reason)
                 ELSE IF ~response.has_desired
                 THEN Ends(state, "No desired positions (miner not running)")
                 ELSE IF positions_within_tolerance(state.positions,
                                                    response.desired_positions)
                 THEN state
                 ELSE IF InsufficientInventory(amount_0_int, amount_1_int)
                 THEN Ends(state, "None")
                 ELSE Rebalanced(state, StepBlock(k), inputs[k].price,
                                 response.desired_positions,
                                 Inventory(amount_0_int, amount_1_int))
         IN  single_loop(next, inputs, k + 1, initial)

\* what the batched loop reports for the miner: a refused miner has accepted False
\* and an empty history
batch_result(state) ==
    [accepted |-> ~state.ended,
     rebalance_history |-> IF state.ended THEN <<>> ELSE state.history,
     inventory |-> state.inventory]

\* what the single-miner loop returns: the history so far also on an early return
single_result(state) ==
    [accepted |-> ~state.ended,
     rebalance_history |-> state.history,
     inventory |-> state.inventory]

InitPure ==
    /\ IdleLoop /\ IdleExec /\ IdleVault
    /\ IdleSched /\ IdleLive /\ IdleWinner /\ IdleRound /\ IdleSelect /\ IdleQuery
    /\ IdleFilter
    /\ \/ pure_fn = "_positions_within_tolerance" /\ pure_args \in ToleranceCalls
       \/ pure_fn = "get_liquidity_for_amounts" /\ pure_args \in LiquidityCalls
       \/ /\ pure_fn = "calculate_position_liquidity_and_amounts"
          /\ pure_args \in PositionCalls
       \/ pure_fn = "ss58_to_bytes32" /\ pure_args \in {<<d>> : d \in DecodedAddresses}
       \/ /\ pure_fn = "evaluate_positions_performance"
          /\ pure_args \in RebalanceHistories \X SwapEvents \X BacktestInventories
                              \X FinalSqrtPrices
       \/ /\ pure_fn = "evaluation_loops"
          /\ pure_args \in LoopInputs \X InitialPositions \X InitialInventories
    /\ pure_ret = <<>>

\* ss58_to_bytes32(ss58) returns or raises
CallSs58ToBytes32 ==
    /\ UNCHANGED outsidePure
    /\ pure_fn = "ss58_to_bytes32"
    /\ pure_ret = <<>>
    /\ pure_ret' = <<ss58_decode_data(pure_args[1])>>
    /\ UNCHANGED <<pure_fn, pure_args>>

\* evaluate_positions_performance(...) returns or raises; the caller's list was
\* sorted in place
CallEvaluatePositionsPerformance ==
    /\ UNCHANGED outsidePure
    /\ pure_fn = "evaluate_positions_performance"
    /\ pure_ret = <<>>
    /\ pure_ret' = <<evaluate_positions_performance(pure_args[1], pure_args[2],
                                                     pure_args[3], pure_args[4])>>
    /\ pure_args' = [pure_args EXCEPT ![1] = sort_by_block_descending(pure_args[1])]
    /\ UNCHANGED pure_fn

\* run_with_miners_batch_for_evaluation(miner_uids=[uid], ...) returns
CallBatchLoopWithOneMiner ==
    /\ UNCHANGED outsidePure
    /\ pure_fn = "evaluation_loops"
    /\ pure_ret = <<>>
    /\ pure_ret' = <<batch_result(batch_loop(LoopState(pure_args[2], pure_args[3]),
                                             pure_args[1], 1))>>
    /\ UNCHANGED <<pure_fn, pure_args>>

\* run_with_miner_for_evaluation(miner_uid=uid, ...) returns, for the same steps
CallSingleMinerLoop ==
    /\ UNCHANGED outsidePure
    /\ pure_fn = "evaluation_loops"
    /\ Len(pure_ret) = 1
    /\ pure_ret' = Append(pure_ret,
                          single_result(single_loop(LoopState(pure_args[2], pure_args[3]),
                                                    pure_args[1], 1, pure_args[3])))
    /\ UNCHANGED <<pure_fn, pure_args>>

\* get_liquidity_for_amounts(sqrt_price, a, b, amount0, amount1) returns
CallGetLiquidityForAmounts ==
    /\ UNCHANGED outsidePure
    /\ pure_fn = "get_liquidity_for_amounts"
    /\ pure_ret = <<>>
    /\ pure_ret' = <<get_liquidity_for_amounts(pure_args[1], pure_args[2],
                         pure_args[3], pure_args[4], pure_args[5])>>
    /\ UNCHANGED <<pure_fn, pure_args>>

\* get_amounts_for_liquidity(sqrt_price, a, b, liquidity) returns, for the liquidity
\* the first call returned
CallGetAmountsForLiquidity ==
    /\ UNCHANGED outsidePure
    /\ pure_fn = "get_liquidity_for_amounts"
    /\ Len(pure_ret) = 1
    /\ pure_ret' = Append(pure_ret, get_amounts_for_liquidity(pure_args[1],
                         pure_args[2], pure_args[3], pure_ret[1]))
    /\ UNCHANGED <<pure_fn, pure_args>>

\* calculate_position_liquidity_and_amounts(position, current_price) returns; the
\* loops take int() of the two amounts
CallPositionLiquidityAndAmounts ==
    /\ UNCHANGED outsidePure
    /\ pure_fn = "calculate_position_liquidity_and_amounts"
    /\ pure_ret = <<>>
    /\ pure_ret' = <<position_liquidity_and_used_amounts(pure_args[1], pure_args[2],
                         pure_args[3], pure_args[4], pure_args[5])>>
    /\ UNCHANGED <<pure_fn, pure_args>>

\* _positions_within_tolerance(current, desired) returns
CallPositionsWithinTolerance ==
    /\ UNCHANGED outsidePure
    /\ pure_fn = "_positions_within_tolerance"
    /\ pure_ret = <<>>
    /\ pure_ret' = <<positions_within_tolerance(pure_args[1], pure_args[2])>>
    /\ UNCHANGED <<pure_fn, pure_args>>

NextPure ==
    \/ CallPositionsWithinTolerance
    \/ CallGetLiquidityForAmounts
    \/ CallGetAmountsForLiquidity
    \/ CallPositionLiquidityAndAmounts
    \/ CallSs58ToBytes32
    \/ CallEvaluatePositionsPerformance
    \/ CallBatchLoopWithOneMiner
    \/ CallSingleMinerLoop

SpecPure == InitPure /\ [][NextPure]_vars

\* C11: the tolerance check is reflexive and symmetric for all position lists,
\* lists that repeat a tick range included: within(P, P) is true, within(P, Q)
\* equals within(Q, P), and lists of different size are never within tolerance
C11_ToleranceReflexiveSymmetric ==
    (pure_fn = "_positions_within_tolerance" /\ pure_ret # <<>>) =>
        LET P == pure_args[1]
            Q == pure_args[2]
        IN  /\ (P = Q => pure_ret[1])
            /\ pure_ret[1] = positions_within_tolerance(Q, P)
            /\ (Len(P) # Len(Q) => ~pure_ret[1])

\* a list that holds one tick range twice, with allocations out of tolerance, is
\* compared with itself and found not within tolerance
C11_RepeatedRangeNotReflexive ==
    /\ pure_fn = "_positions_within_tolerance"
    /\ pure_ret = <<FALSE>>
    /\ pure_args[1] = pure_args[2]
    /\ pure_args[1] = <<PosA, PosA3>>

\* a range with lower < upper and the price strictly inside it
StrictlyInside(price, lo, up) == lo < up /\ lo < price /\ price < up

\* C12: for lower < upper and the price strictly inside the range, and any supplied
\* amounts (a0, a1), one-sided ones included, the amounts returned for the liquidity
\* computed from (a0, a1) exceed neither a0 nor a1, and the deployed amounts of a
\* position exceed neither of its allocations
C12_NoOverDeployment ==
    /\ ( /\ pure_fn = "get_liquidity_for_amounts"
         /\ Len(pure_ret) = 2
         /\ StrictlyInside(pure_args[1], pure_args[2], pure_args[3]) )
       => (pure_ret[2][1] <= pure_args[4] /\ pure_ret[2][2] <= pure_args[5])
    /\ ( /\ pure_fn = "calculate_position_liquidity_and_amounts"
         /\ Len(pure_ret) = 1
         /\ StrictlyInside(pure_args[3], tick_to_sqrt_price(pure_args[1]),
                           tick_to_sqrt_price(pure_args[2])) )
       => (pure_ret[1][1] <= pure_args[4] /\ pure_ret[1][2] <= pure_args[5])

\* amount0 = 0 supplied with the price inside the range: the liquidity of token1 is
\* taken and a positive amount0 comes back
C12_OneSidedOverDeploys ==
    /\ pure_fn = "get_liquidity_for_amounts"
    /\ Len(pure_ret) = 2
    /\ StrictlyInside(pure_args[1], pure_args[2], pure_args[3])
    /\ pure_args[4] = 0
    /\ pure_ret[2][1] > 0

(***************************************************************************)
(* Rebalance history of the simulation loops                               *)
(***************************************************************************)
\* C13: within one peer's rebalance history the entry blocks are strictly
\* increasing in append order, for every sequence of blocks the chain reader
\* returns, the same block on consecutive polls included
C13_HistoryBlocksStrictlyIncreasing ==
    \A uid \in Miners :
        \A i, j \in 1..Len(per_miner_history[uid]) :
            i < j => per_miner_history[uid][i].block < per_miner_history[uid][j].block

\* the chain reader returned the block of the previous check again, the peer was
\* queried again and a second entry was appended for that block
C13_TwoEntriesAtOneBlock ==
    \E uid \in Miners :
        /\ Len(per_miner_history[uid]) >= 2
        /\ per_miner_history[uid][1].block = per_miner_history[uid][2].block
        /\ current_block = per_miner_history[uid][2].block

(***************************************************************************)
(* Failure isolation in the batched evaluation loop                        *)
(***************************************************************************)
\* the steps that end a peer's round: timeout or error, refusal, a response
\* without positions, a proposal the inventory does not cover
FailingSteps == {"timeout", "refused", "no_positions", "insufficient"}

RoundFailed ==
    job_pc = "gather" /\ \E c \in gather_children : coros[c].pc = "failed"

\* the step the job task takes when a round has raised: it goes back to the head of
\* its loop, where the next gather starts (a restart of the process aside)
FailureCaughtAndRetried ==
    (RoundFailed /\ job_pc' # job_pc /\ job_pc' # "init") =>
        /\ job_pc' = "loop"
        /\ iterations' = iterations

\* C15: an exception raised inside an evaluation or live round is caught by the
\* outer loop of the job task: the task does not end because of it and, after the
\* sleep, is at the head of its loop, ready to start the next cycle of rounds
C15_RoundFailureIsCaught == [][FailureCaughtAndRetried]_vars

\* a round raised in the first cycle while its sibling was still running, and the
\* job task has started the second cycle
C15_Witness ==
    /\ job_pc = "gather"
    /\ iterations = 2
    /\ Len(coros) = 4
    /\ \E c \in 1..2 : coros[c].pc \in {"create", "run"}

\* a Round row changes only from active to completed
RoundMutatedOnlyAtCompletion ==
    \A i \in 1..Len(rounds) :
        rounds'[i] # rounds[i] =>
            /\ rounds[i].status = "active"
            /\ rounds'[i] = [rounds[i] EXCEPT !.status = "completed"]

\* only the coroutine that created a row completes it: an active row without a
\* running coroutine stays active forever
ActiveRoundsAreRunning ==
    \A i \in 1..Len(rounds) :
        rounds[i].status = "active" =>
            \E c \in 1..Len(coros) : coros[c].pc = "run" /\ coros[c].round_obj = i

\* C19: a Round row is mutated at most once after creation, at completion, and
\* every created round reaches status completed: no round stays active forever
C19_RoundsCompleteOnce ==
    [][RoundMutatedOnlyAtCompletion]_vars /\ []ActiveRoundsAreRunning

\* the evaluation round of the first cycle raised after its row was created: the
\* row is active and no coroutine is left to complete it
C19_FailedRoundStaysActive ==
    /\ iterations = 1
    /\ Len(rounds) = 1
    /\ rounds[1].status = "active"
    /\ rounds[1].round_type = "evaluation"
    /\ coros[1].pc = "failed"
    /\ \A c \in 1..Len(coros) : coros[c].round_obj # 1

(***************************************************************************)
(* Execution gateway: hard failures                                        *)
(***************************************************************************)
\* the errors of a non-200 status, a transport error and an unexpected exception
HardFailures ==
    {"Executor bot returned status 500", "HTTP client error", "Unexpected error"}

\* C18: for a non-200 gateway status and for a transport error,
\* execute_strategy_onchain returns success = false with no transaction hash and a
\* non-null error, and the execution record that carries the returned execution
\* id is persisted with status failed and that error
C18_HardFailureIsRecorded ==
    (exec_result.returned /\ exec_result.error \in HardFailures) =>
        /\ ~exec_result.success
        /\ exec_result.tx_hash = "None"
        /\ exec_result.error # "None"
        /\ exec_result.execution_id # 0 =>
              /\ exec_result.execution_id \in 1..Len(live_executions)
              /\ LET ex == live_executions[exec_result.execution_id]
                 IN  /\ ex.execution_id = exec_result.execution_id
                     /\ ex.tx_status = "failed"
                     /\ ex.error = exec_result.error
                     /\ ex.tx_hash = "None"

\* the gateway answered with status 500 and the call returned the id of a record
\* that is persisted as failed
C18_Witness ==
    /\ exec_result.returned
    /\ exec_result.error = "Executor bot returned status 500"
    /\ exec_result.execution_id # 0
    /\ live_executions[exec_result.execution_id].tx_status = "failed"

(***************************************************************************)
(* Independence of the peers in the batched evaluation loop                *)
(***************************************************************************)
\* the refusal status of a peer
RefusalStatus(uid) ==
    IF uid \in DOMAIN per_miner_refused THEN <<TRUE, per_miner_refused[uid]>>
    ELSE <<FALSE, "None">>

\* one step of the batched loop: processing a response touches only the state of
\* the peer that sent it, and a query carries the state of the peer it goes to
PeerIndependentStep ==
    mode = "batch" =>
        /\ (lpc = "process" /\ query_results # <<>> /\ query_results' # query_results) =>
              \A other \in Miners \ {Head(query_results)[1]} :
                  /\ PeerFields(other)' = PeerFields(other)
                  /\ RefusalStatus(other)' = RefusalStatus(other)
        /\ (lpc = "query" /\ lpc' = "process") =>
              \A uid \in Miners :
                  uid \notin DOMAIN per_miner_refused =>
                      /\ last_query'[uid].sent
                      /\ last_query'[uid].current_positions = per_miner_positions[uid]
                      /\ last_query'[uid].inventory = per_miner_inventory[uid]
                      /\ last_query'[uid].rebalances_so_far =
                            per_miner_rebalances_so_far[uid]

\* C20: in the batched evaluation loop each peer has independent state: processing
\* a peer's response changes only that peer's positions, inventory, rebalance count,
\* history and refusal status, and every query sent to a peer carries that peer's
\* own current positions, inventory and rebalance count
C20_PeersAreIndependent == [][PeerIndependentStep]_vars

\* the two peers have been sent queries that carry different positions, inventories
\* and rebalance counts: one of them rebalanced at the first step, the other did not
C20_Witness ==
    /\ mode = "batch"
    /\ step_count = 2
    /\ lpc = "process"
    /\ \E a, b \in Miners :
          /\ last_query[a].sent /\ last_query[b].sent
          /\ last_query[a].rebalances_so_far = 1
          /\ last_query[b].rebalances_so_far = 0
          /\ last_query[a].current_positions # last_query[b].current_positions
          /\ last_query[a].inventory # last_query[b].inventory
          /\ last_query[a].block_number = last_query[b].block_number

(***************************************************************************)
(* run_live_round: the miner a live round runs with (round_orchestrator.py)*)
(***************************************************************************)
\* run_live_round calls explored
MaxLiveCalls == 2

LiveMiners == {1, 2, 3}

\* rankings the repository can return: uids in rank order, none twice
Rankings ==
    {r \in UNION {[1..n -> LiveMiners] : n \in 0..3} :
        \A i, j \in 1..Len(r) : i # j => r[i] # r[j]}

\* the head of the ranking, eligible or not
first_ranked(rank, eligible) == IF rank = <<>> THEN 0 ELSE Head(rank)

\* "for uid in ranking: if uid in eligible_uids: winner_uid = uid; break", 0 is None
RECURSIVE first_eligible(_, _)
first_eligible(rank, eligible) ==
    IF rank = <<>> THEN 0
    ELSE IF Head(rank) \in eligible THEN Head(rank)
    ELSE first_eligible(Tail(rank), eligible)

InitSelect ==
    /\ IdleLoop /\ IdleExec /\ IdleVault /\ IdleSched
    /\ IdleLive /\ IdleWinner /\ IdleRound /\ IdlePure /\ IdleQuery /\ IdleFilter
    /\ ranking = <<>>
    /\ eligible_uids = {}
    /\ winner_uid = 0
    /\ live_round_number = 0
    /\ live_rounds = <<>>
    /\ live_queries = 0
    /\ gateway_calls = 0
    /\ live_calls = 0
    /\ live_pc = "returned"

\* run_job_continuously calls run_live_round(job)
CallRunLiveRound ==
    /\ UNCHANGED outsideSelect
    /\ live_pc = "returned"
    /\ live_calls < MaxLiveCalls
    /\ live_calls' = live_calls + 1
    /\ ranking' = <<>>
    /\ eligible_uids' = {}
    /\ winner_uid' = 0
    /\ live_pc' = "start"
    /\ UNCHANGED <<live_round_number, live_rounds, live_queries, gateway_calls>>

\* the same choice with the round number taken before the miner is chosen
SelectLiveMinerTakingNumber ==
    /\ UNCHANGED outsideSelect
    /\ live_pc = "start"
    /\ \E r \in Rankings, e \in SUBSET LiveMiners :
          /\ ranking' = r
          /\ eligible_uids' = IF r = <<>> THEN {} ELSE e
          /\ winner_uid' = IF r = <<>> THEN 0 ELSE first_eligible(r, e)
    /\ live_pc' = IF winner_uid' = 0 THEN "returned" ELSE "create"
    /\ live_round_number' = live_round_number + 1
    /\ UNCHANGED <<live_rounds, live_queries, gateway_calls, live_calls>>

\* read the ranking ("if not ranking: return"), read the eligible miners, take the
\* first ranked uid that is eligible ("if winner_uid is None: return")
SelectLiveMiner ==
    /\ UNCHANGED outsideSelect
    /\ live_pc = "start"
    /\ \E r \in Rankings, e \in SUBSET LiveMiners :
          /\ ranking' = r
          /\ eligible_uids' = IF r = <<>> THEN {} ELSE e
          /\ winner_uid' = IF r = <<>> THEN 0 ELSE first_eligible(r, e)
    /\ live_pc' = IF winner_uid' = 0 THEN "returned" ELSE "create"
    /\ UNCHANGED <<live_round_number, live_rounds, live_queries, gateway_calls,
                   live_calls>>

\* self.round_numbers[job_id]["live"] += 1; create_round(round_type = LIVE, ...)
CreateLiveRound ==
    /\ UNCHANGED outsideSelect
    /\ live_pc = "create"
    /\ live_round_number' = live_round_number + 1
    /\ live_rounds' = Append(live_rounds,
                             [round_number |-> live_round_number + 1,
                              status |-> "active", miner_uid |-> 0, winner_uid |-> 0])
    /\ live_pc' = "run"
    /\ UNCHANGED <<ranking, eligible_uids, winner_uid, live_queries, gateway_calls,
                   live_calls>>

\* result = await run_with_miner_for_live(miner_uid = winner_uid, ...): the miner is
\* queried, the strategy may be sent to the gateway; the row notes the miner
RunWithMinerForLive ==
    /\ UNCHANGED outsideSelect
    /\ live_pc = "run"
    /\ live_queries' = live_queries + 1
    /\ \E executed \in {0, 1} : gateway_calls' = gateway_calls + executed
    /\ live_rounds' = [live_rounds EXCEPT ![Len(live_rounds)].miner_uid = winner_uid]
    /\ live_pc' = "complete"
    /\ UNCHANGED <<ranking, eligible_uids, winner_uid, live_round_number, live_calls>>

\* complete_round(winner_uid = winner_uid if result["accepted"] else None)
CompleteLiveRoundRow ==
    /\ UNCHANGED outsideSelect
    /\ live_pc = "complete"
    /\ \E accepted \in BOOLEAN :
          live_rounds' = [live_rounds EXCEPT
                             ![Len(live_rounds)].status = "completed",
                             ![Len(live_rounds)].winner_uid =
                                 IF accepted THEN winner_uid ELSE 0]
    /\ live_pc' = "returned"
    /\ UNCHANGED <<ranking, eligible_uids, winner_uid, live_round_number,
                   live_queries, gateway_calls, live_calls>>

NextSelect ==
    \/ CallRunLiveRound
    \/ SelectLiveMiner
    \/ CreateLiveRound
    \/ RunWithMinerForLive
    \/ CompleteLiveRoundRow

SpecSelect == InitSelect /\ [][NextSelect]_vars

\* no ranked uid is eligible
NoneEligible(rank, eligible) == \A i \in 1..Len(rank) : rank[i] \notin eligible

\* the step of run_live_round that reads the ranking and the eligible miners: with
\* no ranking or no eligible ranked miner the call returns and nothing else changes
SkippedWithoutEffect ==
    (live_pc = "start" /\ live_pc' # "start"
        /\ (ranking' = <<>> \/ NoneEligible(ranking', eligible_uids'))) =>
        /\ live_pc' = "returned"
        /\ live_rounds' = live_rounds
        /\ live_round_number' = live_round_number
        /\ live_queries' = live_queries
        /\ gateway_calls' = gateway_calls

\* C16: if there is no evaluation ranking or no ranked peer is eligible,
\* run_live_round creates no Round record, does not advance the live round counter,
\* queries no miner and calls no execution gateway
C16_SkipCreatesNothing == [][SkippedWithoutEffect]_vars

\* a call with a ranking but no eligible miner has returned, after an earlier call
\* ran a live round: there is still one Round row and the counter is still 1
C16_Witness ==
    /\ live_pc = "returned"
    /\ live_calls = 2
    /\ ranking # <<>>
    /\ NoneEligible(ranking, eligible_uids)
    /\ Len(live_rounds) = 1
    /\ live_round_number = 1
    /\ live_queries = 1

\* C17: when a live round is created, the peer it runs with is the first peer of
\* the evaluation ranking that is in the eligible set: never an ineligible peer,
\* never an eligible peer ranked below another eligible peer
C17_LiveMinerIsFirstEligible ==
    live_pc \in {"create", "run", "complete"} =>
        /\ winner_uid \in eligible_uids
        /\ \E i \in 1..Len(ranking) :
              /\ ranking[i] = winner_uid
              /\ \A j \in 1..(i - 1) : ranking[j] \notin eligible_uids
        /\ live_pc = "complete" =>
              live_rounds[Len(live_rounds)].miner_uid = winner_uid

\* the top of the ranking is not eligible, the second and third are: the live round
\* has run with the second
C17_Witness ==
    /\ live_pc = "complete"
    /\ Len(ranking) = 3
    /\ ranking[1] \notin eligible_uids
    /\ ranking[2] \in eligible_uids
    /\ ranking[3] \in eligible_uids
    /\ live_rounds[Len(live_rounds)].miner_uid = ranking[2]

(***************************************************************************)
(* Winner ranking and tie-break (SpecWinner)                               *)
(***************************************************************************)
\* the historic combined score the ranking uses for a uid
HistoricOrZero(uid) == IF uid \in DOMAIN historic THEN historic[uid] ELSE 0

LiveResponseUnusableOrRefusing ==
    /\ mode = "live"
    /\ lpc = "process"
    /\ query_results # <<>>
    /\ ~(Head(query_results)[2].usable /\ Head(query_results)[2].accepted)

\* processing such a response returns a result that is not accepted, with the reason
\* of a timeout or the miner's refusal reason
UnusableEndsLiveRound ==
    (LiveResponseUnusableOrRefusing /\ lpc' # lpc) =>
        /\ miner_uid \in DOMAIN results'
        /\ ~results'[miner_uid].accepted
        /\ results'[miner_uid].refusal_reason =
              IF Head(query_results)[2].usable
              THEN Head(query_results)[2].refusal_reason
              ELSE "Timeout or error"

\* C29: in a live round, a selected peer that gives no usable response ends the round
\* TimedOut and a peer that answers accepted=false ends it Refused; in both cases
\* the loop result is not accepted and the round is completed without a winner,
\* its live score not updated
C29_UnusableResponseEndsLiveRound ==
    /\ [][UnusableEndsLiveRound]_vars
    /\ [](mode = "live" /\ lpc = "completed" /\ PeerState(miner_uid) # "Completed"
            => ~live_score_updated)

\* C29, the state that refutes it: a live round whose miner never gave a decision
\* has been completed with an accepted result and the miner's live score updated
C29_SilentMinerCompletesLiveRound ==
    /\ mode = "live"
    /\ lpc = "completed"
    /\ query_count[miner_uid] > 0
    /\ last_step.kind = "no_decision"
    /\ per_miner_history[miner_uid] = <<>>
    /\ execution_results = <<>>
    /\ results[miner_uid].accepted
    /\ PeerState(miner_uid) = "Completed"
    /\ live_score_updated

\* the step of the live loop that processes a response: the local positions,
\* inventory, rebalance count and history change only together with a successful
\* execution being recorded, and a failed execution leaves them alone and counts
\* one failure
LiveStateFollowsExecution ==
    (mode = "live" /\ lpc = "process" /\ lpc' # lpc) =>
        LET executed == Len(execution_results') = Len(execution_results) + 1
            success == executed /\ execution_results'[Len(execution_results')].success
        IN  /\ PeerFields(miner_uid)' # PeerFields(miner_uid) => success
            /\ success =>
                  /\ execution_failures' = execution_failures
                  /\ per_miner_rebalances_so_far'[miner_uid] =
                        per_miner_rebalances_so_far[miner_uid] + 1
                  /\ Len(per_miner_history'[miner_uid]) =
                        Len(per_miner_history[miner_uid]) + 1
            /\ (executed /\ ~success) =>
                  /\ PeerFields(miner_uid)' = PeerFields(miner_uid)
                  /\ execution_failures' = execution_failures + 1
            /\ ~executed => execution_failures' = execution_failures

\* outside that step the live loop leaves the local state and the counters alone
LiveStateKeptElsewhere ==
    (mode = "live" /\ lpc # "process") =>
        /\ PeerFields(miner_uid)' = PeerFields(miner_uid)
        /\ execution_failures' = execution_failures
        /\ execution_results' = execution_results

WithinToleranceResponse ==
    /\ StepTaken
    /\ LET uid == Head(query_results)[1]
           response == Head(query_results)[2]
       IN  /\ ~IsRefused(uid)
           /\ response.usable /\ response.accepted /\ response.has_desired
           /\ positions_within_tolerance(per_miner_positions[uid],
                                         response.desired_positions)

WithinToleranceRecordsNothing ==
    \A uid \in Miners :
        (WithinToleranceResponse /\ uid = Head(query_results)[1]) =>
            /\ PeerFields(uid)' = PeerFields(uid)
            /\ PeerState(uid)' = "Active"
            /\ execution_results' = execution_results
            /\ execution_failures' = execution_failures

\* C31: when the proposed positions are within tolerance of the peer's current
\* positions the step records no rebalance: history, positions, inventory and
\* rebalance count are unchanged, the peer stays active, and in a live round the
\* execution gateway is not called
C31_WithinToleranceRecordsNothing == [][WithinToleranceRecordsNothing]_vars

\* C31 witness: a live miner that rebalanced once proposed the positions it already
\* holds: still one history entry, still the one execution, the miner still active
C31_Witness ==
    /\ mode = "live"
    /\ last_step.kind = "within_tolerance"
    /\ Len(per_miner_history[miner_uid]) = 1
    /\ per_miner_rebalances_so_far[miner_uid] = 1
    /\ Len(execution_results) = 1
    /\ execution_failures = 0
    /\ PeerState(miner_uid) = "Active"

(***************************************************************************)
(* The query gateway: one rebalance step                                   *)
(* (orchestrator/miner_query.py, round_loops.py query_one / asyncio.gather)*)
(***************************************************************************)
QueryMiners == {1, 2, 3}

\* miner_uids of a round: uids in request order, none twice
QueryUidLists ==
    {l \in UNION {[1..n -> QueryMiners] : n \in 1..3} :
        \A i, j \in 1..Len(l) : i # j => l[i] # l[j]}

\* one element of the list a dendrite call returns: None, an object without an
\* accepted attribute, or the synapse the axon of `from` filled in
RawResponse(shape, accepted, from) ==
    [shape |-> shape, accepted |-> accepted, from |-> from]

\* None
NoneResult == RawResponse("none", FALSE, 0)

\* what the axon of uid can hand back to the dendrite
AxonResponses(uid) ==
    {NoneResult, RawResponse("other", FALSE, uid),
     RawResponse("synapse", TRUE, uid), RawResponse("synapse", FALSE, uid)}

\* what `await dendrite(axons = ..., synapse = ..., timeout = ...)` can do: raise, or
\* return a list in axon order that may be shorter than the list of axons
DendriteOutcomes(uids) ==
    {[raised |-> TRUE, responses |-> <<>>]}
        \cup {[raised |-> FALSE, responses |-> r] :
                r \in UNION {{l \in [1..n -> UNION {AxonResponses(uid) : uid \in QueryMiners}] :
                                 \A i \in 1..n : l[i] \in AxonResponses(uids[i])} :
                             n \in 0..Len(uids)}}

\* a parser that returns whatever it was given
parse_any_response(response) == response

\* _parse_single_response: the response if it is truthy and has an accepted attribute
parse_single_response(response) ==
    IF response.shape = "synapse" THEN response ELSE NoneResult

\* query_miners_for_rebalance: [] without uids; a list of None when the dendrite call
\* raises; else responses[i] (None beyond the end of the list), parsed, per uid
query_miners_for_rebalance(uids, outcome) ==
    IF uids = <<>> THEN <<>>
    ELSE IF outcome.raised THEN [i \in 1..Len(uids) |-> NoneResult]
    ELSE [i \in 1..Len(uids) |->
             parse_single_response(IF i <= Len(outcome.responses)
                                   THEN outcome.responses[i] ELSE NoneResult)]

\* query_miner_for_rebalance: responses[0] if responses else None
query_miner_for_rebalance(uid, outcome) ==
    LET responses == query_miners_for_rebalance(<<uid>>, outcome)
    IN  IF responses = <<>> THEN NoneResult ELSE responses[1]

\* the batched loop at a rebalance step ("step"), or query_miners_for_rebalance called
\* with the whole list of uids ("call")
InitQuery ==
    /\ IdleLoop /\ IdleExec /\ IdleVault /\ IdleSched /\ IdleLive
    /\ IdleWinner /\ IdleRound /\ IdlePure /\ IdleSelect /\ IdleFilter
    /\ q_uids \in QueryUidLists
    /\ q_refused \in SUBSET {q_uids[i] : i \in 1..Len(q_uids)}
    /\ in_flight = {}
    /\ dendrite_outcome = <<>>
    /\ query_returned = <<>>
    /\ arrival_order = <<>>
    /\ gather_results = <<>>
    /\ attributed = <<>>
    /\ qpc \in {"step", "call"}
    /\ qpc = "call" => q_refused = {}

\* asyncio.gather(*[query_one(uid) for uid in miner_uids]): a refused uid returns
\* (uid, None) at once, every other uid awaits its own dendrite call
StartQueries ==
    /\ UNCHANGED outsideQuery
    /\ qpc = "step"
    /\ in_flight' = {q_uids[i] : i \in 1..Len(q_uids)} \ q_refused
    /\ query_returned' = [uid \in q_refused |-> NoneResult]
    /\ qpc' = "gather"
    /\ UNCHANGED <<q_uids, q_refused, dendrite_outcome, arrival_order, gather_results,
                   attributed>>

\* the dendrite call of one query_one returns or raises; query_one returns
DendriteReturns ==
    /\ UNCHANGED outsideQuery
    /\ qpc = "gather"
    /\ \E uid \in in_flight :
          \E outcome \in DendriteOutcomes(<<uid>>) :
             /\ in_flight' = in_flight \ {uid}
             /\ dendrite_outcome' = DictPut(dendrite_outcome, uid, outcome)
             /\ query_returned' =
                   DictPut(query_returned, uid, query_miner_for_rebalance(uid, outcome))
             /\ arrival_order' = Append(arrival_order, uid)
    /\ UNCHANGED <<q_uids, q_refused, gather_results, attributed, qpc>>

\* a gather whose list follows the order in which the calls returned
GatherQueriesInArrivalOrder ==
    /\ UNCHANGED outsideQuery
    /\ qpc = "gather"
    /\ in_flight = {}
    /\ gather_results' =
          IF q_refused = {}
          THEN [i \in 1..Len(q_uids) |-> <<q_uids[i], query_returned[arrival_order[i]]>>]
          ELSE [i \in 1..Len(q_uids) |-> <<q_uids[i], query_returned[q_uids[i]]>>]
    /\ qpc' = "process"
    /\ UNCHANGED <<q_uids, q_refused, in_flight, dendrite_outcome, query_returned,
                   arrival_order, attributed>>

\* query_results = await asyncio.gather(...): one (uid, response) per miner_uids entry,
\* in the order of miner_uids
GatherQueries ==
    /\ UNCHANGED outsideQuery
    /\ qpc = "gather"
    /\ in_flight = {}
    /\ gather_results' =
          [i \in 1..Len(q_uids) |-> <<q_uids[i], query_returned[q_uids[i]]>>]
    /\ qpc' = "process"
    /\ UNCHANGED <<q_uids, q_refused, in_flight, dendrite_outcome, query_returned,
                   arrival_order, attributed>>

\* for uid, response in query_results: if uid in per_miner_refused: continue; ...
ProcessQueryResults ==
    /\ UNCHANGED outsideQuery
    /\ qpc = "process"
    /\ attributed' =
          [uid \in {gather_results[i][1] : i \in 1..Len(gather_results)} \ q_refused |->
              LET i == CHOOSE j \in 1..Len(gather_results) : gather_results[j][1] = uid
              IN  gather_results[i][2]]
    /\ qpc' = "done"
    /\ UNCHANGED <<q_uids, q_refused, in_flight, dendrite_outcome, query_returned,
                   arrival_order, gather_results>>

\* query_miners_for_rebalance(miner_uids = q_uids, ...): one dendrite call for all axons
CallQueryMiners ==
    /\ UNCHANGED outsideQuery
    /\ qpc = "call"
    /\ \E outcome \in DendriteOutcomes(q_uids) :
          /\ dendrite_outcome' = DictPut(dendrite_outcome, 0, outcome)
          /\ gather_results' =
                LET responses == query_miners_for_rebalance(q_uids, outcome)
                IN  [i \in 1..Len(responses) |-> <<q_uids[i], responses[i]>>]
    /\ qpc' = "returned"
    /\ UNCHANGED <<q_uids, q_refused, in_flight, query_returned, arrival_order,
                   attributed>>

NextQuery ==
    \/ StartQueries
    \/ DendriteReturns
    \/ GatherQueries
    \/ ProcessQueryResults
    \/ CallQueryMiners

SpecQuery == InitQuery /\ [][NextQuery]_vars

\* C21: during an evaluation round the number of peer queries in flight at the same
\* time within one rebalance step never exceeds the configured batch size
C21_InFlightWithinBatchSize == Cardinality(in_flight) <= EVALUATION_BATCH_SIZE

\* C21, the state that refutes it: more miners than the batch size are evaluated and
\* the queries of all of them are in flight at once
C21_AllQueriesInFlight ==
    /\ qpc = "gather"
    /\ Len(q_uids) > EVALUATION_BATCH_SIZE
    /\ Cardinality(in_flight) = Len(q_uids)

\* the response the dendrite delivered for position i of a call, None if it raised or
\* returned a shorter list
Delivered(outcome, i) ==
    IF ~outcome.raised /\ i <= Len(outcome.responses)
    THEN outcome.responses[i] ELSE NoneResult

\* None unless the delivered response has an accepted flag, then that response
UsableOrNone(response) ==
    IF response.shape \in {"none", "other"} THEN NoneResult ELSE response

\* C22: a peer's response is usable only if it exposes an accepted flag; any other
\* shape, a transport error or a timeout yields None for that peer only: every
\* query returns, and the usable responses of the other peers are still returned
C22_UnusableIsNoneForThatPeerOnly ==
    /\ \A uid \in DOMAIN dendrite_outcome \ {0} :
          query_returned[uid] = UsableOrNone(Delivered(dendrite_outcome[uid], 1))
    /\ qpc \in {"process", "done"} =>
          \A i \in 1..Len(q_uids) :
             gather_results[i][2] =
                IF q_uids[i] \in q_refused THEN NoneResult
                ELSE UsableOrNone(Delivered(dendrite_outcome[q_uids[i]], 1))
    /\ qpc = "returned" =>
          /\ Len(gather_results) = Len(q_uids)
          /\ \A i \in 1..Len(q_uids) :
                gather_results[i][2] = UsableOrNone(Delivered(dendrite_outcome[0], i))

\* C22 witness: in one step one dendrite call raised, one returned an object without
\* an accepted flag and one returned a synapse, which is the only usable response
C22_Witness ==
    /\ qpc = "done"
    /\ \E a, b, c \in DOMAIN dendrite_outcome :
          /\ dendrite_outcome[a].raised
          /\ Delivered(dendrite_outcome[b], 1).shape = "other"
          /\ Delivered(dendrite_outcome[c], 1).shape = "synapse"
          /\ attributed[a] = NoneResult
          /\ attributed[b] = NoneResult
          /\ attributed[c].shape = "synapse"

\* C23: within one rebalance step every response is attributed to the peer it was
\* requested from, whatever order the responses arrive in; the query gateway returns
\* exactly one entry per requested peer, in request order
C23_ResponsesMatchedByPeer ==
    /\ qpc \in {"process", "done", "returned"} =>
          /\ Len(gather_results) = Len(q_uids)
          /\ \A i \in 1..Len(q_uids) :
                /\ gather_results[i][1] = q_uids[i]
                /\ gather_results[i][2].from \in {0, q_uids[i]}
    /\ qpc = "done" =>
          \A uid \in DOMAIN attributed :
             attributed[uid] = IF uid \in DOMAIN dendrite_outcome
                               THEN UsableOrNone(Delivered(dendrite_outcome[uid], 1))
                               ELSE NoneResult

\* C23 witness: three synapses arrived in the reverse of the request order and each
\* was handled for the peer that sent it
C23_Witness ==
    /\ qpc = "done"
    /\ Len(q_uids) = 3
    /\ arrival_order = <<q_uids[3], q_uids[2], q_uids[1]>>
    /\ \A uid \in QueryMiners : attributed[uid].from = uid

(***************************************************************************)
(* Vault eligibility (services/vault.py filter_eligible_miners,            *)
(* repositories/vault.py)                                                  *)
(***************************************************************************)
\* vault.minimum_balance_usd of every vault of the model
minimum_balance_usd == 100

FilterMiners == {1, 2}

\* a MinerVault row and its latest VaultSnapshot (has_snapshot FALSE: no snapshot)
VaultRows ==
    [miner_uid : FilterMiners, is_verified : BOOLEAN, is_active : BOOLEAN,
     has_snapshot : {TRUE}, total_value_usd : {99, 100}]
        \cup [miner_uid : FilterMiners, is_verified : BOOLEAN, is_active : BOOLEAN,
              has_snapshot : {FALSE}, total_value_usd : {0}]

\* MinerVault tables: a miner can have registered more than one vault address
VaultTables == UNION {[1..n -> VaultRows] : n \in 0..2}

\* miner_uids arguments
FilterUidLists == UNION {[1..n -> FilterMiners] : n \in 0..2}

\* get_verified_vault_by_miner: filter(miner_uid, is_verified, is_active).first() has
\* no ordering, so it returns any of the matching rows; 0 stands for None
get_verified_vault_by_miner(uid) ==
    LET matching == {v \in 1..Len(vault_table) :
                        /\ vault_table[v].miner_uid = uid
                        /\ vault_table[v].is_verified
                        /\ vault_table[v].is_active}
    IN  IF matching = {} THEN {0} ELSE matching

\* check_vault_meets_minimum: False without a snapshot, else total_value_usd >= minimum
check_vault_meets_minimum(v) ==
    IF ~vault_table[v].has_snapshot THEN FALSE
    ELSE vault_table[v].total_value_usd >= minimum_balance_usd

\* is_miner_eligible_for_evaluation(uid) with both requirements, for the vault the
\* lookup returned
is_miner_eligible_for_evaluation(v) ==
    IF v = 0 THEN FALSE ELSE check_vault_meets_minimum(v)

InitFilter ==
    /\ IdleLoop /\ IdleExec /\ IdleVault /\ IdleSched /\ IdleLive
    /\ IdleWinner /\ IdleRound /\ IdlePure /\ IdleSelect /\ IdleQuery
    /\ vault_table \in VaultTables
    /\ filter_uids \in FilterUidLists
    /\ filter_next = 1
    /\ filter_checked = <<>>
    /\ filter_eligible = <<>>
    /\ filter_pc = "loop"

\* one iteration of "for uid in miner_uids" whose repository calls return
CheckMiner ==
    /\ UNCHANGED outsideFilter
    /\ filter_pc = "loop"
    /\ filter_next <= Len(filter_uids)
    /\ \E v \in get_verified_vault_by_miner(filter_uids[filter_next]) :
          LET eligible == is_miner_eligible_for_evaluation(v)
          IN  /\ filter_checked' =
                    Append(filter_checked, <<filter_uids[filter_next], eligible>>)
              /\ filter_eligible' =
                    IF eligible THEN Append(filter_eligible, filter_uids[filter_next])
                    ELSE filter_eligible
    /\ filter_next' = filter_next + 1
    /\ UNCHANGED <<vault_table, filter_uids, filter_pc>>

\* one iteration in which a repository query (the vault lookup or the snapshot
\* lookup) raises: nothing on the way catches it, filter_eligible_miners raises
CheckMinerRaises ==
    /\ UNCHANGED outsideFilter
    /\ filter_pc = "loop"
    /\ filter_next <= Len(filter_uids)
    /\ filter_pc' = "raised"
    /\ UNCHANGED <<vault_table, filter_uids, filter_next, filter_checked,
                   filter_eligible>>

\* return eligible_uids
ReturnEligible ==
    /\ UNCHANGED outsideFilter
    /\ filter_pc = "loop"
    /\ filter_next > Len(filter_uids)
    /\ filter_pc' = "returned"
    /\ UNCHANGED <<vault_table, filter_uids, filter_next, filter_checked,
                   filter_eligible>>

NextFilter ==
    \/ CheckMiner
    \/ CheckMinerRaises
    \/ ReturnEligible

SpecFilter == InitFilter /\ [][NextFilter]_vars

\* the miner has a vault that is verified, active and whose latest snapshot is at
\* least the minimum
HasEligibleVault(uid) ==
    \E v \in 1..Len(vault_table) :
        /\ vault_table[v].miner_uid = uid
        /\ vault_table[v].is_verified
        /\ vault_table[v].is_active
        /\ vault_table[v].has_snapshot
        /\ vault_table[v].total_value_usd >= minimum_balance_usd

\* the uids of the input that have an eligible vault, in input order
RECURSIVE EligibleOf(_)
EligibleOf(uids) ==
    IF uids = <<>> THEN <<>>
    ELSE IF HasEligibleVault(Head(uids)) THEN <<Head(uids)>> \o EligibleOf(Tail(uids))
    ELSE EligibleOf(Tail(uids))

\* C24: a miner is eligible exactly when it has a vault that is verified and active
\* and whose latest snapshot value is at least the minimum (no snapshot: not
\* eligible); filter_eligible_miners returns exactly the eligible uids of its input,
\* in input order
C24_EligibleIffQualifyingVault ==
    /\ \A i \in 1..Len(filter_checked) :
          filter_checked[i][2] = HasEligibleVault(filter_checked[i][1])
    /\ filter_pc = "returned" => filter_eligible = EligibleOf(filter_uids)

\* C24, the state that refutes it: the miner has two verified, active vaults, one at
\* the minimum and one below it; the lookup returned the one below, the miner was
\* found not eligible and is missing from the returned list
C24_SecondVaultIgnored ==
    /\ filter_pc = "returned"
    /\ Len(filter_uids) = 1
    /\ Len(vault_table) = 2
    /\ \A v \in 1..2 : /\ vault_table[v].miner_uid = filter_uids[1]
                       /\ vault_table[v].is_verified
                       /\ vault_table[v].is_active
                       /\ vault_table[v].has_snapshot
    /\ vault_table[1].total_value_usd < minimum_balance_usd
    /\ vault_table[2].total_value_usd >= minimum_balance_usd
    /\ filter_checked[1] = <<filter_uids[1], FALSE>>
    /\ filter_eligible = <<>>

\* C25: in filter_eligible_miners each peer is checked independently: a verification,
\* lookup or balance-check failure for one peer leaves only that peer ineligible, is
\* never raised to the caller and does not change the result of any other peer, so
\* the call always returns and every checked peer's result is in the list it returns
C25_FailureIsNeverRaised ==
    /\ filter_pc # "raised"
    /\ filter_pc = "returned" =>
          /\ Len(filter_checked) = Len(filter_uids)
          /\ \A i \in 1..Len(filter_checked) :
                filter_checked[i][2] <=>
                   \E j \in 1..Len(filter_eligible) :
                      filter_eligible[j] = filter_checked[i][1]

\* C25, the state that refutes it: the first peer was found eligible, a repository
\* query for the second peer raised, and the caller got the exception instead of
\* the list with the first peer
C25_LookupFailureRaised ==
    /\ filter_pc = "raised"
    /\ filter_next = 2
    /\ Len(filter_uids) = 2
    /\ filter_uids[1] # filter_uids[2]
    /\ filter_eligible = <<filter_uids[1]>>

(***************************************************************************)
(* SS58 decoding and the in-range ratio (SpecPure)                         *)
(***************************************************************************)
\* the decoded bytes are exactly prefix (1 or 2 bytes) + account id + 2-byte
\* checksum, and the checksum is the one of prefix + account id
WellFormedAddress(data) ==
    \E prefix_len \in {1, 2} :
        /\ Len(data) = prefix_len + AccountIdLength + 2
        /\ prefix_len = 2 <=> (data[1] \div 64) % 2 = 1
        /\ Slice(data, prefix_len + AccountIdLength, Len(data)) =
              ss58_checksum(Slice(data, 0, prefix_len + AccountIdLength))

\* C27: ss58_to_bytes32 returns an account id only for inputs whose decoded bytes are
\* exactly prefix + account id + 2-byte checksum with a matching checksum; inputs of
\* a wrong length, too short or too long, and inputs with a corrupted checksum byte
\* make it raise
C27_DecodesOnlyWellFormedAddresses ==
    (pure_fn = "ss58_to_bytes32" /\ pure_ret # <<>>) =>
        /\ pure_ret[1].raised = "None" <=> WellFormedAddress(pure_args[1])
        /\ pure_ret[1].raised = "None" => Len(pure_ret[1].account_id) = AccountIdLength

\* C27, the state that refutes it: a well-formed address followed by one more byte
\* was decoded to an account id
C27_OverlongAddressAccepted ==
    /\ pure_fn = "ss58_to_bytes32"
    /\ pure_ret # <<>>
    /\ pure_ret[1].raised = "None"
    /\ Len(pure_args[1]) = 1 + AccountIdLength + 2 + 1
    /\ (pure_args[1][1] \div 64) % 2 = 0
    /\ WellFormedAddress(Slice(pure_args[1], 0, Len(pure_args[1]) - 1))

\* C28: for any rebalance history and any swap-event sequence, also with several
\* simultaneously deployed, possibly overlapping positions, the reported
\* in_range_ratio is a fraction between 0 and 1 inclusive (0 to 100 per cent)
C28_InRangeRatioIsFraction ==
    ( /\ pure_fn = "evaluate_positions_performance"
      /\ pure_ret # <<>>
      /\ pure_ret[1].raised = "None" ) =>
        /\ pure_ret[1].in_range_ratio >= 0
        /\ pure_ret[1].in_range_ratio <= 100

\* C28, the state that refutes it: two overlapping positions are deployed, both are
\* in range at the one swap of the round, and the reported ratio is 2
C28_RatioAboveOne ==
    /\ pure_fn = "evaluate_positions_performance"
    /\ pure_ret # <<>>
    /\ pure_ret[1].raised = "None"
    /\ Len(pure_args[1]) = 1
    /\ pure_args[1][1].new_positions = <<PosA, PosB>>
    /\ Len(pure_args[2]) = 1
    /\ pure_ret[1].in_range_ratio = 200

(***************************************************************************)
(* Job task: rounds in progress (SpecRound)                                *)
(***************************************************************************)
\* the coroutines of one round type whose round was created and is still running
RoundsInProgress(round_type) ==
    {c \in 1..Len(coros) : coros[c].round_type = round_type /\ coros[c].pc = "run"}

\* C32: for one job at most one evaluation round and at most one live round are in
\* progress at any time, also after one round of a cycle raised while the other was
\* still running
C32_OneRoundPerTypeInProgress ==
    \A round_type \in RoundTypes : Cardinality(RoundsInProgress(round_type)) <= 1

\* C32, the state that refutes it: the live round of the first cycle raised, the job
\* task went on to the next cycle, and the evaluation round of the first cycle is
\* still running next to the evaluation round of the second
C32_TwoEvaluationRoundsInProgress ==
    /\ job_pc = "gather"
    /\ \E c \in RoundsInProgress("evaluation"), d \in RoundsInProgress("evaluation") :
          /\ c \notin gather_children
          /\ d \in gather_children
          /\ coros[c].round_obj # coros[d].round_obj
          /\ rounds[coros[c].round_obj].status = "active"
          /\ rounds[coros[d].round_obj].status = "active"

(***************************************************************************)
(* Simulation loops: the blocks at which a peer is queried (SpecLoop)      *)
(***************************************************************************)
\* the peers a loop queries: every miner of the batch, the one miner otherwise
LoopPeers == IF mode = "batch" THEN Miners ELSE {miner_uid}

IsCheckBlock(block) == (block - start_block) % rebalance_check_interval = 0

\* the latest check block the chain has reached
LastCheckBlock ==
    current_block - ((current_block - start_block) % rebalance_check_interval)

\* C33: while the round deadline is not reached a still-active peer is queried at
\* block b only if (b - start_block) is a multiple of the rebalance check interval,
\* and it has been queried at the latest such multiple the chain has reached (no
\* check block is skipped when the chain advances by more than one block)
C33_QueriedAtEveryCheckBlock ==
    \A uid \in LoopPeers :
        /\ last_query[uid].sent => IsCheckBlock(last_query[uid].block_number)
        /\ (lpc = "advance" /\ now <= RoundDeadline /\ PeerState(uid) = "Active") =>
              /\ last_query[uid].sent
              /\ last_query[uid].block_number = LastCheckBlock

\* C33, the state that refutes it: the miner was queried at the start block, the
\* next poll found the chain three blocks on, past the check block start_block + 2;
\* the loop sleeps and the miner, still active, was never queried at that block
C33_CheckBlockSkipped ==
    /\ mode = "single"
    /\ lpc = "advance"
    /\ now <= RoundDeadline
    /\ PeerState(miner_uid) = "Active"
    /\ current_block = start_block + 3
    /\ LastCheckBlock = start_block + 2
    /\ query_count[miner_uid] = 1
    /\ last_query[miner_uid].block_number = start_block

(***************************************************************************)
(* Simulation loops: the rebalance history and the peer's state (SpecLoop) *)
(***************************************************************************)
HistoryConsistent(uid) ==
    LET history == per_miner_history[uid]
    IN  /\ per_miner_rebalances_so_far[uid] = Len(history)
        /\ \A i \in 1..Len(history) :
              history[i].old_positions =
                  IF i = 1 THEN initial_positions ELSE history[i - 1].new_positions
        /\ history # <<>> =>
              /\ per_miner_positions[uid] = history[Len(history)].new_positions
              /\ per_miner_inventory[uid] = history[Len(history)].inventory

HistoryAppendOnly ==
    \A uid \in Miners :
        /\ Len(per_miner_history'[uid]) >= Len(per_miner_history[uid])
        /\ SubSeq(per_miner_history'[uid], 1, Len(per_miner_history[uid])) =
              per_miner_history[uid]

CoveringEntries(history, B) == {i \in 1..Len(history) : history[i].block < B}

\* the last appended of a non-empty set of entries
LatestOf(entries) == CHOOSE i \in entries : \A j \in entries : j <= i

\* the call of evaluate_positions_performance has ended
EvaluationEnded == pure_fn = "evaluate_positions_performance" /\ pure_ret # <<>>

\* C35: for a swap event at block B the positions in effect are the new positions of
\* the latest history entry whose block is strictly less than B, and the evaluation
\* fails with an error exactly when an event is covered by no entry
C35_LatestCoveringEntryOrError ==
    EvaluationEnded =>
        LET history == pure_ret[1].history_as_passed
            events == pure_args[2]
            used == pure_ret[1].positions_used
            covering(k) == CoveringEntries(history, events[k].evt_block_number)
        IN  /\ \A k \in 1..Len(used) :
                  /\ covering(k) # {}
                  /\ used[k] = history[LatestOf(covering(k))].new_positions
            /\ (\E k \in 1..Len(events) : covering(k) = {})
                  <=> pure_ret[1].raised = "ValueError"

\* C35, the state that refutes it: the peer rebalanced twice at block 9, to
\* different positions; for the swap at block 10 the evaluation took the positions
\* of the first of the two entries, not of the latest
C35_StaleEntryInEffect ==
    /\ EvaluationEnded
    /\ Len(pure_ret[1].history_as_passed) = 2
    /\ pure_ret[1].history_as_passed[1].block = 9
    /\ pure_ret[1].history_as_passed[2].block = 9
    /\ Len(pure_args[2]) = 1
    /\ pure_args[2][1].evt_block_number = 10
    /\ pure_ret[1].positions_used[1] = pure_ret[1].history_as_passed[1].new_positions
    /\ pure_ret[1].positions_used[1] # pure_ret[1].history_as_passed[2].new_positions

\* the evaluation returned and the final holdings (deployed plus idle) equal the
\* initial inventory in both tokens
HoldingsEqualInitial ==
    /\ EvaluationEnded
    /\ pure_ret[1].raised = "None"
    /\ pure_ret[1].amount0_holdings = pure_args[3].amount0
    /\ pure_ret[1].amount1_holdings = pure_args[3].amount1

\* C38: the hold baseline and the final holdings are valued at the same closing price
\* in the same token denomination: whenever the final holdings equal the initial
\* inventory in both tokens the reported impermanent loss is 0, for every closing
\* price
C38_NoLossWhenHoldingsUnchanged ==
    HoldingsEqualInitial => pure_ret[1].impermanent_loss = 0

\* C38, the state that refutes it: nothing is deployed and the idle inventory is the
\* initial 3 token0 and 1 token1; at the closing price 4 the baseline is 3 * 4 + 1 and
\* the holdings are valued 1 * 4 + 3, a reported loss of 46 percent
C38_LossWithUnchangedHoldings ==
    /\ HoldingsEqualInitial
    /\ pure_args[3] = Inventory(3, 1)
    /\ pure_args[4] = 2 * SqrtScale
    /\ pure_ret[1].impermanent_loss = 46
    /\ lp_value_in_token1(pure_ret[1].amount0_holdings, pure_ret[1].amount1_holdings,
                          pure_args[4]) = hodl_value_deployed(pure_args[3], pure_args[4])

\* the blocks of a history, in list order
BlocksOf(history) == [i \in 1..Len(history) |-> history[i].block]

IsAscending(blocks) == \A i \in 1..(Len(blocks) - 1) : blocks[i] <= blocks[i + 1]

\* the call leaves the list it was given as it was
HistoryArgumentKept ==
    (pure_fn = "evaluate_positions_performance" /\ pure_ret = <<>>) =>
        pure_args'[1] = pure_args[1]

\* C39: evaluate_positions_performance does not modify the rebalance history passed
\* to it: the caller's list holds the same entries in the same append order after the
\* call, ascending by block with the most recent entry last
C39_HistoryArgumentUnchanged ==
    /\ [][HistoryArgumentKept]_vars
    /\ [](EvaluationEnded => IsAscending(BlocksOf(pure_args[1])))

\* C39, the state that refutes it: the caller appended an entry at block 9 and one at
\* block 11; after the call its list starts with the entry of block 11
C39_HistoryReversed ==
    /\ EvaluationEnded
    /\ BlocksOf(pure_ret[1].history_as_passed) = <<9, 11>>
    /\ BlocksOf(pure_args[1]) = <<11, 9>>
    /\ pure_args[1][2] = pure_ret[1].history_as_passed[1]

(***************************************************************************)
(* Evaluation round: winner selection and the score updates (SpecWinner)   *)
(***************************************************************************)
\* the step in which select_winner reads the historic scores and ranks: no score of
\* this round has been written, and the winner is ranked with the scores read
SelectionReadsBeforeUpdates ==
    (wpc = "select" /\ wpc' = "complete") =>
        /\ score_updates = {}
        /\ historic' = miner_scores
        /\ winner' \in select_winner(scores, miner_scores)

\* a MinerScore row is written only once the winner is selected, and the scores the
\* selection read stay as they were read
UpdatesFollowSelection ==
    (miner_scores' # miner_scores \/ score_updates' # score_updates) =>
        /\ wpc \notin {"evaluate", "select"}
        /\ winner' = winner
        /\ historic' = historic

\* C36: in an evaluation round the winner selection reads the peers' historic
\* combined scores before any score or participation update of the same round is
\* written: the tie-break never sees scores produced by the round being decided
C36_SelectionBeforeScoreUpdates ==
    /\ [][SelectionReadsBeforeUpdates /\ UpdatesFollowSelection]_vars
    /\ [](wpc \in {"evaluate", "select"} => score_updates = {})

\* C36 witness: two peers tied on the round score and the one with the higher
\* historic score won; afterwards the round updated every peer's row, and the
\* loser's combined score is no longer the one the selection read
C36_Witness ==
    /\ wpc = "done"
    /\ winner # NoWinner
    /\ score_updates = DOMAIN scores
    /\ \E uid \in DOMAIN scores :
          /\ uid # winner.miner_uid
          /\ scores[uid].score = winner.score
          /\ HistoricOrZero(uid) < HistoricOrZero(winner.miner_uid)
          /\ miner_scores[uid] # HistoricOrZero(uid)
    /\ miner_scores # historic

(***************************************************************************)
(* The two evaluation loops on the same steps (SpecPure)                   *)
(***************************************************************************)
\* both loops have returned
BothLoopsReturned == pure_fn = "evaluation_loops" /\ Len(pure_ret) = 2

\* C37: for the same sequence of miner responses, prices and block numbers the batched
\* evaluation loop run with a single miner and the single-miner evaluation loop
\* produce the same accepted flag, the same rebalance history and the same resulting
\* inventory
C37_LoopsAgree ==
    BothLoopsReturned =>
        /\ pure_ret[1].accepted = pure_ret[2].accepted
        /\ pure_ret[1].rebalance_history = pure_ret[2].rebalance_history
        /\ pure_ret[1].inventory = pure_ret[2].inventory

\* C37, the state that refutes it: after a first rebalance the miner proposes
\* positions that the initial inventory covers and the remaining inventory does not;
\* the batched loop refuses the miner and reports no history, the single-miner loop
\* accepts with two history entries
C37_BatchRefusesWhereSingleCommits ==
    /\ BothLoopsReturned
    /\ ~pure_ret[1].accepted
    /\ pure_ret[1].rebalance_history = <<>>
    /\ pure_ret[2].accepted
    /\ Len(pure_ret[2].rebalance_history) = 2
    /\ pure_ret[1].inventory # pure_ret[2].inventory

====
